---- MODULE Spec2Model ----
(***************************************************************************)
(* Response formatting and size-bounded output pipeline of the AFP news    *)
(* MCP server: truncateToLimit, truncateIfNeeded, the markdown/json/csv    *)
(* renderers, buildPaginationLine, the search presets and the tool         *)
(* handlers (afp_search_articles, afp_find_similar, afp_get_article,       *)
(* afp_list_facets).                                                       *)
(*                                                                         *)
(* Strings.  A JavaScript string is modelled as a Text: a sequence of      *)
(* pieces [s, n], the piece standing for the first n characters of the     *)
(* string named s.  A literal of the source is the piece (literal,         *)
(* Len(literal)); a value that comes from the caller or from the upstream  *)
(* API (a headline, a paragraph) is a piece (name, length) whose length is *)
(* free, so that texts of 25,000 characters and more are ordinary values.  *)
(* The length of a text is the sum of its pieces, s.slice(0, k) keeps the  *)
(* pieces that fit and cuts the piece k falls in, and concatenation is     *)
(* \o.                                                                     *)
(***************************************************************************)
EXTENDS Integers, Sequences, FiniteSets, TLC

VARIABLES
    trunc,      \* the activation of truncateToLimit under SpecTruncate
    blocks,     \* the activation of truncateIfNeeded under SpecBlocks
    inv,        \* the tool invocation under Spec
    pure,       \* the application of a pure function under SpecPick and SpecEscape
    flight,     \* the concurrent tool invocations under SpecConcurrent
    server,     \* the activation of createServer under SpecServer
    mail,       \* the notification tools and the notification center under SpecMail
    config,     \* the module-level tables and their readers under SpecConfig
    http,       \* the session table, transports and last request under SpecHttp
    center      \* the notification center and concurrent tool calls under SpecMailConcurrent

vars == <<trunc, blocks, inv, pure, flight, server, mail, config, http, center>>

\* the variables only their own specification touches
rest == <<config, http, center>>

\* the variables the formatting pipeline does not touch
others == <<pure, flight, server, mail, rest>>

---------------------------------------------------------------------------
(* Program constants *)

CHARACTER_LIMIT == 25000

EXCERPT_PARAGRAPH_COUNT == 4

DEFAULT_SEARCH_SIZE == 10

---------------------------------------------------------------------------
(* Bounds of the model *)

\* longest item list handed to truncateToLimit under SpecTruncate
MaxItems == 3

\* longest block list handed to truncateIfNeeded under SpecBlocks
MaxBlocks == 3

\* most documents in one upstream response under Spec
MaxDocs == 2

\* most characters of a string handed to escapeCsvValue under SpecEscape
MaxChars == 2

\* most field names handed to pickDocFields under SpecPick
MaxNames == 3

\* most tool invocations in flight together under SpecConcurrent
MaxInFlight == 2

\* most calls of the notification tools in one run under SpecMail
MaxCalls == 3

---------------------------------------------------------------------------
(* Texts *)

Piece(s, n) == [s |-> s, n |-> n]

\* a literal of the source
Lit(s) == IF s = "" THEN <<>> ELSE <<Piece(s, Len(s))>>

\* n characters of the caller's or upstream's string called name
Filler(name, n) == IF n = 0 THEN <<>> ELSE <<Piece(name, n)>>

\* n characters of a value called name, sp counting the double quotes,
\* commas, \n and \r among them
Marked(name, n, sp) == <<[s |-> name, n |-> n, sp |-> sp]>>

\* String(i) of a number
Num(i) == Lit(ToString(i))

\* text.length: the pieces summed, by halves
RECURSIVE TLen(_)
TLen(t) ==
    IF Len(t) = 0 THEN 0
    ELSE IF Len(t) = 1 THEN t[1].n
    ELSE LET m == Len(t) \div 2
         IN  TLen(SubSeq(t, 1, m)) + TLen(SubSeq(t, m + 1, Len(t)))

\* text.slice(0, k), k >= 0
RECURSIVE TSlice(_, _)
TSlice(t, k) ==
    IF t = <<>> \/ k <= 0 THEN <<>>
    ELSE IF Head(t).n <= k
         THEN <<Head(t)>> \o TSlice(Tail(t), k - Head(t).n)
         ELSE <<Piece(Head(t).s, k)>>

\* texts.join(sep)
RECURSIVE TJoin(_, _)
TJoin(texts, sep) ==
    IF texts = <<>> THEN <<>>
    ELSE IF Len(texts) = 1 THEN texts[1]
    ELSE texts[1] \o sep \o TJoin(Tail(texts), sep)

\* text.includes(lit) for a literal or named value that is one piece of text
Contains(t, piece) == \E i \in 1..Len(t) : t[i] = piece

\* the number of \n among the first n characters of a literal
RECURSIVE CountLF(_, _)
CountLF(s, n) ==
    IF n = 0 THEN 0
    ELSE (IF SubSeq(s, n, n) = "\n" THEN 1 ELSE 0) + CountLF(s, n - 1)

\* text.split('\n').length - 1 of a CSV text: the \n of its literals and of
\* its marked values (the name of an unmarked value holds none)
RECURSIVE LineFeeds(_)
LineFeeds(t) ==
    IF Len(t) = 0 THEN 0
    ELSE IF Len(t) = 1
         THEN IF "sp" \in DOMAIN t[1] THEN t[1].sp.nl
              ELSE CountLF(t[1].s, IF t[1].n < Len(t[1].s) THEN t[1].n ELSE Len(t[1].s))
    ELSE LET m == Len(t) \div 2
         IN  LineFeeds(SubSeq(t, 1, m)) + LineFeeds(SubSeq(t, m + 1, Len(t)))

\* an attribute, argument or key that is not defined (undefined)
Absent == [k |-> "absent"]

---------------------------------------------------------------------------
(* truncateToLimit: items.length = n, and ser[k] is serialize(items.slice(0, k)) *)

\* SearchStep with the comparison `<` in place of `<=`
SearchStepStrict(lo, hi, ser) ==
    LET mid == (lo + hi + 1) \div 2
    IN  IF TLen(ser[mid]) < CHARACTER_LIMIT
        THEN <<mid, hi>>
        ELSE <<lo, mid - 1>>

\* SearchStep probing the next prefix only: a linear search
SearchStepLinear(lo, hi, ser) ==
    IF TLen(ser[lo + 1]) <= CHARACTER_LIMIT
    THEN <<lo + 1, hi>>
    ELSE <<lo, lo>>

\* one iteration of the loop `while (lo < hi)`: the new <<lo, hi>>
SearchStep(lo, hi, ser) ==
    LET mid == (lo + hi + 1) \div 2     \* Math.ceil((lo + hi) / 2)
    IN  IF TLen(ser[mid]) <= CHARACTER_LIMIT
        THEN <<mid, hi>>
        ELSE <<lo, mid - 1>>

\* the loop, run to its exit: the final lo
RECURSIVE BinarySearch(_, _, _)
BinarySearch(lo, hi, ser) ==
    IF lo < hi
    THEN LET s == SearchStep(lo, hi, ser) IN BinarySearch(s[1], s[2], ser)
    ELSE lo

FitsLimit(full) == TLen(full) <= CHARACTER_LIMIT

\* truncateToLimit without its early return: the search always runs and the
\* result is always flagged truncated
truncateToLimitAlwaysSearching(n, ser) ==
    LET lo == BinarySearch(0, n, ser)
    IN  [text |-> ser[lo], count |-> lo, truncated |-> TRUE]

truncateToLimit(n, ser) ==
    LET full == ser[n]
    IN  IF FitsLimit(full)
        THEN [text |-> full, count |-> n, truncated |-> FALSE]
        ELSE LET lo == BinarySearch(0, n, ser)
             IN  [text |-> ser[lo], count |-> lo, truncated |-> TRUE]

---------------------------------------------------------------------------
(* SpecTruncate: truncateToLimit on every serializer over a few lengths,   *)
(* the loop taken one iteration at a time                                  *)

SerializedLengths ==
    {40, CHARACTER_LIMIT - 1, CHARACTER_LIMIT, CHARACTER_LIMIT + 1}

\* the serializer whose output for the prefix of length k has sizes[k] characters
SerializerOf(n, sizes) == [k \in 0..n |-> Filler("slice" \o ToString(k), sizes[k])]

NoResult == [text |-> <<>>, count |-> 0 - 1, truncated |-> FALSE]

IdleBlocks ==
    [pc |-> "off", content |-> <<>>, next |-> 1, accumulated |-> 0, truncated |-> <<>>,
     result |-> <<>>]

IdleInv ==
    [pc |-> "idle", tool |-> "none", args |-> Absent, call |-> Absent,
     response |-> Absent, result |-> Absent]

IdleTrunc ==
    [pc |-> "off", n |-> 0, ser |-> <<>>, lo |-> 0, hi |-> 0, calls |-> 0,
     result |-> NoResult]

\* nothing applied, no invocation in flight, createServer and the
\* notification tools not called
IdlePure == [pc |-> "off"]

IdleFlight == <<>>

IdleServer == [pc |-> "off"]

IdleMail == [pc |-> "off"]

IdleConfig == [pc |-> "off"]

IdleHttp == [pc |-> "off"]

IdleCenter == [pc |-> "off"]

RestIdle == config = IdleConfig /\ http = IdleHttp /\ center = IdleCenter

OthersIdle ==
    /\ pure = IdlePure /\ flight = IdleFlight /\ server = IdleServer /\ mail = IdleMail
    /\ RestIdle

TruncInit ==
    /\ \E n \in 0..MaxItems : \E sizes \in [0..n -> SerializedLengths] :
         trunc = [pc |-> "start", n |-> n, ser |-> SerializerOf(n, sizes),
                  lo |-> 0, hi |-> 0, calls |-> 0, result |-> NoResult]
    /\ blocks = IdleBlocks
    /\ inv = IdleInv
    /\ OthersIdle

\* lines 28-34: the full serialization fits, or the search starts
TruncStartFits ==
    /\ trunc.pc = "start"
    /\ FitsLimit(trunc.ser[trunc.n])
    /\ trunc' = [trunc EXCEPT !.pc = "done", !.calls = 1,
                   !.result = [text |-> trunc.ser[trunc.n], count |-> trunc.n,
                               truncated |-> FALSE]]
    /\ UNCHANGED <<blocks, inv, others>>

TruncStartSearch ==
    /\ trunc.pc = "start"
    /\ ~FitsLimit(trunc.ser[trunc.n])
    /\ trunc' = [trunc EXCEPT !.pc = "loop", !.calls = 1, !.lo = 0, !.hi = trunc.n]
    /\ UNCHANGED <<blocks, inv, others>>

\* lines 35-42: one iteration
TruncIterate ==
    /\ trunc.pc = "loop"
    /\ trunc.lo < trunc.hi
    /\ LET s == SearchStep(trunc.lo, trunc.hi, trunc.ser)
       IN  trunc' = [trunc EXCEPT !.lo = s[1], !.hi = s[2], !.calls = @ + 1]
    /\ UNCHANGED <<blocks, inv, others>>

\* line 44: the loop has ended
TruncReturn ==
    /\ trunc.pc = "loop"
    /\ ~(trunc.lo < trunc.hi)
    /\ trunc' = [trunc EXCEPT !.pc = "done", !.calls = @ + 1,
                   !.result = [text |-> trunc.ser[trunc.lo], count |-> trunc.lo,
                               truncated |-> TRUE]]
    /\ UNCHANGED <<blocks, inv, others>>

TruncNext == TruncStartFits \/ TruncStartSearch \/ TruncIterate \/ TruncReturn

SpecTruncate == TruncInit /\ [][TruncNext]_vars

\* the function is synchronous: once called it runs until it returns
SpecTruncateRuns == SpecTruncate /\ WF_vars(TruncNext)

---------------------------------------------------------------------------
(* Values of a document attribute, as the upstream API delivers them.      *)
(* A string carries its length and the number of double quotes, commas and *)
(* line breaks in it, which is all that escapeCsvValue and JSON.stringify  *)
(* look at (a backslash or control character in a value is not modelled).  *)

\* the `null` that pickDocFields puts in place of a missing attribute
Null == [k |-> "null"]

NoSpecial == [dq |-> 0, cm |-> 0, nl |-> 0, cr |-> 0]

\* a string of n characters, sp counting its double quotes, commas, \n and \r
Str(name, n, sp) == [k |-> "str", s |-> name, n |-> n, sp |-> sp]

\* a short string given by its characters, with no quote, comma or line break
StrLit(s) == Str(s, Len(s), NoSpecial)

\* a long string of n plain characters
Plain(name, n) == Str(name, n, NoSpecial)

NumV(i) == [k |-> "num", v |-> i]

Arr(items) == [k |-> "arr", items |-> items]

\* Array.isArray(v)
IsArray(v) == v.k = "arr"

\* the truthiness test `if (v)` of formatDocument
Truthy(v) ==
    CASE v.k \in {"absent", "null"} -> FALSE
      [] v.k = "str" -> v.n > 0
      [] v.k = "num" -> v.v # 0
      [] OTHER -> TRUE

RECURSIVE JoinValues(_, _)

\* String(v), the conversion template literals and Array.join apply
ToText(v) ==
    CASE v.k = "absent" -> Lit("undefined")
      [] v.k = "null" -> Lit("null")
      [] v.k = "str" -> Filler(v.s, v.n)
      [] v.k = "num" -> Num(v.v)
      [] OTHER -> JoinValues(v.items, ",")

\* items.join(sep) of an array of strings; an absent element joins as ''
JoinValues(items, sep) ==
    TJoin([i \in 1..Len(items) |->
              IF items[i].k \in {"absent", "null"} THEN <<>> ELSE ToText(items[i])],
          Lit(sep))

ALL_DOC_FIELDS ==
    <<"afpshortid", "uno", "headline", "published", "lang", "genre", "status",
      "signal", "advisory", "country", "city", "slug", "product", "revision", "created">>

DEFAULT_OUTPUT_FIELDS == <<"uno", "headline", "lang", "genre">>

MARKDOWN_API_FIELDS ==
    <<"uno", "status", "signal", "advisory", "headline", "news", "lang", "genre">>

Range(f) == {f[i] : i \in DOMAIN f}

\* the attribute names of a document
DocKeys == Range(ALL_DOC_FIELDS) \cup {"news"}

---------------------------------------------------------------------------
(* The truncation of a list of markdown blocks.  A block (TextContent) is  *)
(* its text; its type is always 'text'.                                    *)

MIN_REMAINING == 100

BACKTICK == <<Piece("BACKTICK", 1)>>

TRUNCATION_HINT ==
    Lit("\n\n---\n*Response truncated (exceeded ") \o Num(CHARACTER_LIMIT)
      \o Lit(" characters). Use a smaller ") \o BACKTICK \o Lit("size") \o BACKTICK
      \o Lit(" or add filters to reduce results.*")

ELLIPSIS == Lit("\n\n[...truncated]")

RECURSIVE SumLen(_)
SumLen(content) == IF content = <<>> THEN 0 ELSE TLen(Head(content)) + SumLen(Tail(content))

\* CutBlock with the comparison `>=` in place of `>`
CutBlockAtBudget(item, remaining, truncated) ==
    IF remaining >= MIN_REMAINING
    THEN Append(truncated, TSlice(item, remaining) \o ELLIPSIS)
    ELSE truncated

\* what the cut of the overflowing item leaves: pushed only when the budget allows
CutBlock(item, remaining, truncated) ==
    IF remaining > MIN_REMAINING
    THEN Append(truncated, TSlice(item, remaining) \o ELLIPSIS)
    ELSE truncated

\* BlockStep pushing the whole overflowing item instead of its first
\* `remaining` characters
BlockStepUncut(item, accumulated, truncated) ==
    IF accumulated + TLen(item) > CHARACTER_LIMIT
    THEN [stop |-> TRUE, accumulated |-> accumulated,
          truncated |-> IF CHARACTER_LIMIT - accumulated > MIN_REMAINING
                        THEN Append(truncated, item \o ELLIPSIS) ELSE truncated]
    ELSE [stop |-> FALSE, accumulated |-> accumulated + TLen(item),
          truncated |-> Append(truncated, item)]

\* one iteration of `for (const item of content)`, lines 183-191
BlockStep(item, accumulated, truncated) ==
    IF accumulated + TLen(item) > CHARACTER_LIMIT
    THEN [stop |-> TRUE, accumulated |-> accumulated,
          truncated |-> CutBlock(item, CHARACTER_LIMIT - accumulated, truncated)]
    ELSE [stop |-> FALSE, accumulated |-> accumulated + TLen(item),
          truncated |-> Append(truncated, item)]

RECURSIVE BlockLoop(_, _, _)
BlockLoop(content, accumulated, truncated) ==
    IF content = <<>> THEN truncated
    ELSE LET r == BlockStep(Head(content), accumulated, truncated)
         IN  IF r.stop THEN r.truncated
             ELSE BlockLoop(Tail(content), r.accumulated, r.truncated)

truncateIfNeeded(content) ==
    IF SumLen(content) <= CHARACTER_LIMIT THEN content
    ELSE Append(BlockLoop(content, 0, <<>>), TRUNCATION_HINT)

\* buildPaginationLine with hasMore computed by `>=`
buildPaginationLineInclusive(shown, total, offset) ==
    LET hasMore == total >= offset + shown
    IN  Lit("*Showing ") \o Num(shown) \o Lit(" of ") \o Num(total)
          \o Lit(" results (offset: ") \o Num(offset) \o Lit(").")
          \o (IF hasMore
              THEN Lit(" Use offset=") \o Num(offset + shown) \o Lit(" to see more.")
              ELSE <<>>)
          \o Lit("*")

\* buildPaginationLine(shown, total, offset)
buildPaginationLine(shown, total, offset) ==
    LET hasMore == total > offset + shown
    IN  Lit("*Showing ") \o Num(shown) \o Lit(" of ") \o Num(total)
          \o Lit(" results (offset: ") \o Num(offset) \o Lit(").")
          \o (IF hasMore
              THEN Lit(" Use offset=") \o Num(offset + shown) \o Lit(" to see more.")
              ELSE <<>>)
          \o Lit("*")

---------------------------------------------------------------------------
(* SpecBlocks: truncateIfNeeded on every list of blocks over a few         *)
(* lengths, the loop taken one item at a time                              *)

BlockLengths ==
    {80, CHARACTER_LIMIT - 2 * MIN_REMAINING, CHARACTER_LIMIT - MIN_REMAINING,
     CHARACTER_LIMIT \div 2 - MIN_REMAINING, CHARACTER_LIMIT \div 2, CHARACTER_LIMIT + 1}

BlockOf(len) == Filler("block" \o ToString(len), len)

BlocksInit ==
    /\ \E n \in 0..MaxBlocks : \E lens \in [1..n -> BlockLengths] :
         blocks = [IdleBlocks EXCEPT !.pc = "start",
                                     !.content = [i \in 1..n |-> BlockOf(lens[i])]]
    /\ trunc = [pc |-> "off", n |-> 0, ser |-> <<>>, lo |-> 0, hi |-> 0, calls |-> 0,
                result |-> NoResult]
    /\ inv = IdleInv
    /\ OthersIdle

\* lines 177-178
BlocksStartFits ==
    /\ blocks.pc = "start"
    /\ SumLen(blocks.content) <= CHARACTER_LIMIT
    /\ blocks' = [blocks EXCEPT !.pc = "done", !.result = blocks.content]
    /\ UNCHANGED <<trunc, inv, others>>

BlocksStartLoop ==
    /\ blocks.pc = "start"
    /\ ~(SumLen(blocks.content) <= CHARACTER_LIMIT)
    /\ blocks' = [blocks EXCEPT !.pc = "loop"]
    /\ UNCHANGED <<trunc, inv, others>>

\* lines 182-192: the next item is kept, or the loop breaks on it
BlocksIterate ==
    /\ blocks.pc = "loop"
    /\ blocks.next <= Len(blocks.content)
    /\ LET r == BlockStep(blocks.content[blocks.next], blocks.accumulated, blocks.truncated)
       IN  blocks' = [blocks EXCEPT !.pc = IF r.stop THEN "break" ELSE "loop",
                                    !.next = @ + 1,
                                    !.accumulated = r.accumulated,
                                    !.truncated = r.truncated]
    /\ UNCHANGED <<trunc, inv, others>>

\* lines 193-194
BlocksReturn ==
    /\ \/ blocks.pc = "break"
       \/ blocks.pc = "loop" /\ blocks.next > Len(blocks.content)
    /\ blocks' = [blocks EXCEPT !.pc = "done",
                                !.result = Append(blocks.truncated, TRUNCATION_HINT)]
    /\ UNCHANGED <<trunc, inv, others>>

BlocksNext == BlocksStartFits \/ BlocksStartLoop \/ BlocksIterate \/ BlocksReturn

SpecBlocks == BlocksInit /\ [][BlocksNext]_vars

---------------------------------------------------------------------------
(* The markdown renderers *)

\* Array.isArray(d.news) ? d.news : []
Paragraphs(doc) == IF IsArray(doc["news"]) THEN doc["news"].items ELSE <<>>

\* Take keeping one element more than asked
TakeOneMore(seq, k) == SubSeq(seq, 1, IF Len(seq) < k + 1 THEN Len(seq) ELSE k + 1)

\* paragraphs.slice(0, k)
Take(seq, k) == SubSeq(seq, 1, IF Len(seq) < k THEN Len(seq) ELSE k)

formatDocument(doc, fullText) ==
    LET flag(label, f) == IF Truthy(doc[f]) THEN <<Lit(label) \o ToText(doc[f])>> ELSE <<>>
        meta == <<Lit("UNO: ") \o ToText(doc["uno"]),
                  Lit("Lang: ") \o ToText(doc["lang"]),
                  Lit("Genre: ") \o ToText(doc["genre"])>>
                  \o flag("Status: ", "status")
                  \o flag("Signal: ", "signal")
                  \o flag("Advisory: ", "advisory")
        paragraphs == Paragraphs(doc)
        body == IF fullText
                THEN JoinValues(paragraphs, "\n\n")
                ELSE JoinValues(Take(paragraphs, EXCERPT_PARAGRAPH_COUNT), "\n\n")
    IN  Lit("## ") \o ToText(doc["headline"]) \o Lit("\n*") \o TJoin(meta, Lit(" | "))
          \o Lit("*\n\n") \o body

\* ' <middle dot> ', the separator of the pairs of a row
MIDDOT == <<Piece("SPACE MIDDLE-DOT SPACE", 3)>>

\* v != null && v !== ''
Shown(v) == ~(v.k \in {"absent", "null"}) /\ ~(v.k = "str" /\ v.n = 0)

formatFullArticle(doc) ==
    LET pair(label, f) ==
            IF Shown(doc[f])
            THEN <<Lit("**" \o label \o ":** ")
                     \o (IF IsArray(doc[f]) THEN JoinValues(doc[f].items, ", ")
                         ELSE ToText(doc[f]))>>
            ELSE <<>>
        row(pairs) == TJoin(pairs, MIDDOT)
        extras == row(pair("Country", "country") \o pair("City", "city") \o pair("Slug", "slug"))
        flags == row(pair("Status", "status") \o pair("Signal", "signal")
                       \o pair("Advisory", "advisory"))
        lines == <<row(pair("UNO", "uno")),
                   row(pair("Lang", "lang") \o pair("Genre", "genre")
                         \o pair("Product", "product") \o pair("Revision", "revision"))>>
                   \o (IF extras # <<>> THEN <<extras>> ELSE <<>>)
                   \o (IF flags # <<>> THEN <<flags>> ELSE <<>>)
        meta == TJoin(lines, Lit("\n"))
        body == JoinValues(Paragraphs(doc), "\n\n")
    IN  Lit("## ") \o ToText(doc["headline"]) \o Lit("\n\n") \o meta
          \o Lit("\n\n---\n\n") \o body

---------------------------------------------------------------------------
(* Property lookup obj[name] on a plain object: its own attribute, else    *)
(* what Object.prototype defines under that name, else undefined.  (Names  *)
(* that are array indices, which an object enumerates first, are not       *)
(* modelled.)                                                              *)

ObjectPrototypeKeys == {"constructor", "toString", "valueOf", "hasOwnProperty"}

\* the function an object inherits under the name f
Inherited(f) == [k |-> "fn", s |-> IF f = "constructor" THEN "Object" ELSE f]

Get(obj, f) ==
    IF f \in DOMAIN obj /\ obj[f] # Absent THEN obj[f]
    ELSE IF f \in ObjectPrototypeKeys THEN Inherited(f)
    ELSE Absent

---------------------------------------------------------------------------
(* The requested fields.  The schema accepts any array of field names, of  *)
(* any length and with repetitions: it is modelled run-length encoded, as  *)
(* a sequence of runs [f, k], k >= 1 copies of the name f.                 *)

Run(f, k) == [f |-> f, k |-> k]

Runs(names) == [i \in 1..Len(names) |-> Run(names[i], 1)]

\* k copies of the text t joined by ','; of the special characters of the
\* copies only the line feeds are kept count of
RepeatJoin(t, k) ==
    LET name == "repeat(" \o (IF t = <<>> THEN "" ELSE t[1].s) \o ")"
        n == k * TLen(t) + (k - 1)
    IN  IF k = 1 THEN t
        ELSE IF LineFeeds(t) = 0 THEN Filler(name, n)
        ELSE Marked(name, n, [dq |-> 0, cm |-> k - 1, nl |-> k * LineFeeds(t), cr |-> 0])

\* the keys of Object.fromEntries over the fields: each name once, in the
\* order of its first occurrence
RECURSIVE DistinctKeys(_, _)
DistinctKeys(fields, seen) ==
    IF fields = <<>> THEN <<>>
    ELSE IF Head(fields).f \in seen THEN DistinctKeys(Tail(fields), seen)
    ELSE <<Head(fields).f>> \o DistinctKeys(Tail(fields), seen \cup {Head(fields).f})

\* d[f] ?? null
OrNull(v) == IF v.k = "absent" THEN Null ELSE v

\* pickDocFields: the entries <<name, value>> of the projected object
pickDocFields(doc, fields) ==
    LET keys == DistinctKeys(fields, {})
    IN  [i \in 1..Len(keys) |-> <<keys[i], OrNull(Get(doc, keys[i]))>>]

---------------------------------------------------------------------------
(* JSON.stringify(value, null, 2) *)

Spaces(k) == IF k = 0 THEN <<>> ELSE <<Piece("(spaces)", k)>>

Quote == Lit("\"")

\* a string between quotes, each quote and line break of it escaped by a backslash
JsonString(v) ==
    LET extra == v.sp.dq + v.sp.nl + v.sp.cr
    IN  Quote \o (IF extra = 0 THEN Filler(v.s, v.n)
                  ELSE Filler("json(" \o v.s \o ")", v.n + extra)) \o Quote

\* the members of an object or array, one per line at indentation ind + 2
JsonBlock(open, members, close, ind) ==
    IF members = <<>> THEN Lit(open \o close)
    ELSE Lit(open \o "\n")
           \o TJoin([i \in 1..Len(members) |-> Spaces(ind + 2) \o members[i]], Lit(",\n"))
           \o Lit("\n") \o Spaces(ind) \o Lit(close)

JsonScalar(v) ==
    CASE v.k = "str" -> JsonString(v)
      [] v.k = "num" -> Num(v.v)
      [] OTHER -> Lit("null")        \* null, and undefined inside an array

\* a document attribute: a scalar, or an array of scalars (slug)
JsonValue(v, ind) ==
    IF IsArray(v)
    THEN JsonBlock("[", [i \in 1..Len(v.items) |-> JsonScalar(v.items[i])], "]", ind)
    ELSE JsonScalar(v)

JsonMember(key, valueText) == Quote \o Lit(key) \o Lit("\": ") \o valueText

\* an object given by its entries <<key, value>>; a member whose value is a
\* function is left out
JsonObject(entries, ind) ==
    LET kept == SelectSeq(entries, LAMBDA en : en[2].k # "fn")
    IN  JsonBlock("{", [i \in 1..Len(kept) |->
                           JsonMember(kept[i][1], JsonValue(kept[i][2], ind + 2))],
                  "}", ind)

\* JsonEnvelope reporting every projected document as shown
JsonEnvelopeShownAll(meta, documents, k) ==
    JsonBlock("{",
        [i \in 1..Len(meta) |-> JsonMember(meta[i][1], Num(meta[i][2]))]
          \o <<JsonMember("shown", Num(Len(documents))),
               JsonMember("truncated", Lit(IF k < Len(documents) THEN "true" ELSE "false")),
               JsonMember("documents",
                   JsonBlock("[", [i \in 1..k |-> JsonObject(documents[i], 4)], "]", 2))>>,
        "}", 0)

\* line 55: the envelope over the first k of the projected documents
JsonEnvelope(meta, documents, k) ==
    JsonBlock("{",
        [i \in 1..Len(meta) |-> JsonMember(meta[i][1], Num(meta[i][2]))]
          \o <<JsonMember("shown", Num(k)),
               JsonMember("truncated", Lit(IF k < Len(documents) THEN "true" ELSE "false")),
               JsonMember("documents",
                   JsonBlock("[", [i \in 1..k |-> JsonObject(documents[i], 4)], "]", 2))>>,
        "}", 0)

formatDocumentsAsJsonInner(docs, fields, meta) ==
    LET documents == [i \in 1..Len(docs) |-> pickDocFields(docs[i], fields)]
        r == truncateToLimit(Len(documents),
                 [k \in 0..Len(documents) |-> JsonEnvelope(meta, documents, k)])
    IN  [content |-> r.text, truncated |-> r.truncated, count |-> r.count]

---------------------------------------------------------------------------
(* CSV *)

\* the number of c among the first n characters of s
RECURSIVE Occurrences(_, _, _)
Occurrences(s, c, n) ==
    IF n = 0 THEN 0
    ELSE (IF SubSeq(s, n, n) = c THEN 1 ELSE 0) + Occurrences(s, c, n - 1)

\* the double quotes, commas, \n and \r of a string given by its characters
Specials(s) ==
    [dq |-> Occurrences(s, "\"", Len(s)), cm |-> Occurrences(s, ",", Len(s)),
     nl |-> Occurrences(s, "\n", Len(s)), cr |-> Occurrences(s, "\r", Len(s))]

\* a string value given by its characters
Chars(s) == Str(s, Len(s), Specials(s))

\* the string value is given by its characters, not by a name and a length
IsChars(str) == Len(str.s) = str.n /\ Specials(str.s) = str.sp

\* an element of value.join('|'): null and undefined join as ''
ElementString(x) ==
    CASE x.k = "str" -> x
      [] x.k = "num" -> StrLit(ToString(x.v))
      [] OTHER -> StrLit("")

\* the characters of the first i of strs joined with '|'
RECURSIVE JoinChars(_, _)
JoinChars(strs, i) ==
    IF i = 0 THEN ""
    ELSE IF i = 1 THEN strs[1].s
    ELSE JoinChars(strs, i - 1) \o "|" \o strs[i].s

\* Array.isArray(value) ? value.join('|') : String(value ?? ''), as a string value
CsvString(v) ==
    CASE v.k \in {"absent", "null"} -> StrLit("")
      [] v.k = "str" -> v
      [] v.k = "num" -> StrLit(ToString(v.v))
      [] v.k = "fn" ->
           Plain("String(" \o v.s \o ")", Len("function " \o v.s \o "() { [native code] }"))
      [] OTHER ->
           LET strs == [i \in 1..Len(v.items) |-> ElementString(v.items[i])]
               Sum[i \in 0..Len(strs)] ==
                   IF i = 0 THEN [n |-> 0, dq |-> 0, cm |-> 0, nl |-> 0, cr |-> 0]
                   ELSE LET e == strs[i]
                        IN  [n |-> Sum[i - 1].n + e.n, dq |-> Sum[i - 1].dq + e.sp.dq,
                             cm |-> Sum[i - 1].cm + e.sp.cm, nl |-> Sum[i - 1].nl + e.sp.nl,
                             cr |-> Sum[i - 1].cr + e.sp.cr]
               t == Sum[Len(strs)]
           IN  Str(IF \A i \in 1..Len(strs) : IsChars(strs[i])
                   THEN JoinChars(strs, Len(strs))
                   ELSE "join(" \o (IF strs = <<>> THEN "" ELSE strs[1].s) \o ")",
                   t.n + (IF strs = <<>> THEN 0 ELSE Len(strs) - 1),
                   [dq |-> t.dq, cm |-> t.cm, nl |-> t.nl, cr |-> t.cr])

\* NeedsQuoting without the carriage return
NeedsQuotingNoCr(str) == str.sp.dq + str.sp.cm + str.sp.nl > 0

\* /[",\n\r]/.test(str)
NeedsQuoting(str) == str.sp.dq + str.sp.cm + str.sp.nl + str.sp.cr > 0

\* the first n characters of s with every double quote doubled
RECURSIVE ReplaceAllQuotes(_, _)
ReplaceAllQuotes(s, n) ==
    IF n = 0 THEN ""
    ELSE ReplaceAllQuotes(s, n - 1)
           \o (IF SubSeq(s, n, n) = "\"" THEN "\"\"" ELSE SubSeq(s, n, n))

\* str.replaceAll('"', '""'): every double quote doubled
Doubled(str) ==
    Marked(IF IsChars(str) THEN ReplaceAllQuotes(str.s, Len(str.s))
           ELSE "doubled(" \o str.s \o ")",
           str.n + str.sp.dq, [str.sp EXCEPT !.dq = 2 * @])

escapeCsvValue(v) ==
    LET str == CsvString(v)
    IN  IF NeedsQuoting(str)
        THEN Quote \o Doubled(str) \o Quote
        ELSE Filler(str.s, str.n)

\* fields.map(f => escapeCsvValue(doc[f])).join(',')
CsvRow(doc, fields) ==
    TJoin([i \in 1..Len(fields) |->
              RepeatJoin(escapeCsvValue(Get(doc, fields[i].f)), fields[i].k)],
          Lit(","))

\* fields.join(',')
CsvHeader(fields) ==
    TJoin([i \in 1..Len(fields) |-> RepeatJoin(Lit(fields[i].f), fields[i].k)], Lit(","))

\* CsvLines without the header line
CsvLinesNoHeader(header, rows, k) == TJoin(SubSeq(rows, 1, k), Lit("\n"))

\* line 70: [header, ...slice].join('\n') over the first k rows
CsvLines(header, rows, k) == TJoin(<<header>> \o SubSeq(rows, 1, k), Lit("\n"))

formatDocumentsAsCsvInner(docs, fields) ==
    LET rows == [i \in 1..Len(docs) |-> CsvRow(docs[i], fields)]
        header == CsvHeader(fields)
        r == truncateToLimit(Len(rows), [k \in 0..Len(rows) |-> CsvLines(header, rows, k)])
    IN  [content |-> r.text, truncated |-> r.truncated, count |-> r.count]

---------------------------------------------------------------------------
(* formatDocumentOutput: the content blocks of a multi-document result *)

\* WithHint that never pushes the notice
WithoutHint(r) == <<r.content>>

\* lines 148-150 and 154-156: the body block, and the notice when truncated
WithHint(r) == IF r.truncated THEN <<r.content, TRUNCATION_HINT>> ELSE <<r.content>>

formatDocumentOutput(documents, format, fields, fullText, jsonMeta, markdownPrefix) ==
    IF format = "json"
    THEN WithHint(formatDocumentsAsJsonInner(documents, fields, jsonMeta))
    ELSE IF format = "csv"
    THEN WithHint(formatDocumentsAsCsvInner(documents, fields))
    ELSE truncateIfNeeded(markdownPrefix
            \o [i \in 1..Len(documents) |-> formatDocument(documents[i], fullText)])

\* toolError(message)
toolError(message) == [isError |-> TRUE, content |-> <<message>>]

\* a success payload
Success(content) == [isError |-> FALSE, content |-> content]

\* formatErrorMessage that leaves the failure's message out
formatErrorMessageNoCause(context, error, hint) ==
    Lit("Error ") \o context \o Lit(". ") \o hint

\* formatErrorMessage(context, error, hint): context and hint are texts, the
\* error is the message of the Error thrown (or String(error))
formatErrorMessage(context, error, hint) ==
    Lit("Error ") \o context \o Lit(": ") \o Filler(error, Len(error)) \o Lit(". ") \o hint

---------------------------------------------------------------------------
(* Requests to the upstream API.  A request (and a bundle of facets or of  *)
(* preset overrides) maps each key to its value, Absent when not defined.  *)

BoolV(b) == [k |-> "bool", v |-> b]

StrList(strs) == Arr([i \in 1..Len(strs) |-> StrLit(strs[i])])

RequestKeys ==
    {"query", "size", "sortOrder", "startAt", "product", "genreid", "lang", "slug",
     "dateFrom", "country"}

NoKeys == [key \in RequestKeys |-> Absent]

\* { ...a, ...b }: the keys b defines take b's value
Merge(a, b) == [key \in RequestKeys |-> IF b[key] # Absent THEN b[key] ELSE a[key]]

GENRE_EXCLUSIONS ==
    [k |-> "obj",
     exclude |-> <<"afpgenre:Agenda", "afpattribute:Agenda", "afpattribute:Program",
                   "afpattribute:TextProgram", "afpattribute:AdvisoryUpdate",
                   "afpattribute:Advice", "afpattribute:SpecialAnnouncement",
                   "afpattribute:PictureProgram">>]

SearchPresetNames == {"a-la-une", "agenda", "previsions", "major-stories"}

SEARCH_PRESETS ==
    [p \in SearchPresetNames |->
        CASE p = "a-la-une" ->
               [NoKeys EXCEPT !["product"] = StrList(<<"news">>),
                              !["lang"] = StrList(<<"fr">>),
                              !["slug"] = StrList(<<"afp", "actualites">>),
                              !["dateFrom"] = StrLit("now-1d"),
                              !["size"] = NumV(1),
                              !["genreid"] = GENRE_EXCLUSIONS]
          [] p = "agenda" ->
               [NoKeys EXCEPT !["product"] = StrList(<<"news">>),
                              !["size"] = NumV(5),
                              !["genreid"] = StrList(<<"afpattribute:Agenda">>)]
          [] p = "previsions" ->
               [NoKeys EXCEPT !["product"] = StrList(<<"news">>),
                              !["size"] = NumV(5),
                              !["genreid"] =
                                  StrList(<<"afpattribute:Program", "afpedtype:TextProgram">>)]
          [] OTHER ->
               [NoKeys EXCEPT !["product"] = StrList(<<"news">>),
                              !["genreid"] = StrList(<<"afpattribute:Article">>)]]

\* a parameter with a default: `x = d` in the handler's destructuring
Default(v, d) == IF v = Absent THEN d ELSE v

---------------------------------------------------------------------------
(* afp_search_articles *)

\* SearchRequest with the spread reversed: { ...SEARCH_PRESETS[preset], ...request }
SearchRequestCallerWins(args) ==
    LET facetFilters ==
            Merge([NoKeys EXCEPT !["product"] = StrList(<<"news", "factcheck">>),
                                 !["genreid"] = GENRE_EXCLUSIONS],
                  IF args.facets = Absent THEN NoKeys ELSE args.facets.entries)
        base == Merge([NoKeys EXCEPT !["query"] = args.query,
                                     !["size"] = Default(args.size, NumV(DEFAULT_SEARCH_SIZE)),
                                     !["sortOrder"] = Default(args.sortOrder, StrLit("desc")),
                                     !["startAt"] = args.offset],
                      facetFilters)
    IN  IF Truthy(args.preset)
        THEN Merge(SEARCH_PRESETS[args.preset.s], base)
        ELSE base

\* lines 235-252: the request, and the fullText the renderer gets
\* SearchRequest with the defaults spread after the caller's facets
SearchRequestDefaultsLast(args) ==
    LET facetFilters ==
            Merge(IF args.facets = Absent THEN NoKeys ELSE args.facets.entries,
                  [NoKeys EXCEPT !["product"] = StrList(<<"news", "factcheck">>),
                                 !["genreid"] = GENRE_EXCLUSIONS])
        base == Merge([NoKeys EXCEPT !["query"] = args.query,
                                     !["size"] = Default(args.size, NumV(DEFAULT_SEARCH_SIZE)),
                                     !["sortOrder"] = Default(args.sortOrder, StrLit("desc")),
                                     !["startAt"] = args.offset],
                      facetFilters)
    IN  IF Truthy(args.preset)
        THEN Merge(base, SEARCH_PRESETS[args.preset.s])
        ELSE base

\* lines 235-252, reading the module-level tables presets and exclusions
SearchRequestFrom(presets, exclusions, args) ==
    LET facetFilters ==
            Merge([NoKeys EXCEPT !["product"] = StrList(<<"news", "factcheck">>),
                                 !["genreid"] = exclusions],
                  IF args.facets = Absent THEN NoKeys ELSE args.facets.entries)
        base == Merge([NoKeys EXCEPT !["query"] = args.query,
                                     !["size"] = Default(args.size, NumV(DEFAULT_SEARCH_SIZE)),
                                     !["sortOrder"] = Default(args.sortOrder, StrLit("desc")),
                                     !["startAt"] = args.offset],
                      facetFilters)
    IN  IF Truthy(args.preset)
        THEN Merge(base, presets[args.preset.s])
        ELSE base

SearchRequest(args) == SearchRequestFrom(SEARCH_PRESETS, GENRE_EXCLUSIONS, args)

SearchFullText(args) ==
    IF Truthy(args.preset) THEN TRUE ELSE Default(args.fullText, BoolV(FALSE)).v

\* line 254
OutputFields(args) == IF args.fields = Absent THEN Runs(DEFAULT_OUTPUT_FIELDS) ELSE args.fields.runs

\* lines 255-257
SearchApiFields(args) ==
    IF Default(args.format, StrLit("markdown")) = StrLit("markdown")
    THEN MARKDOWN_API_FIELDS
    ELSE DistinctKeys(Runs(<<"afpshortid", "uno">>) \o OutputFields(args), {})

NO_RESULTS == Lit("No results found.")

\* SearchResume with the empty-result test made in the markdown branch only
SearchResumeEmptyMarkdownOnly(args, response) ==
    IF response.count = 0 /\ Default(args.format, StrLit("markdown")) = StrLit("markdown")
    THEN Success(<<NO_RESULTS>>)
    ELSE LET currentOffset == Default(args.offset, NumV(0)).v
         IN  Success(formatDocumentOutput(
                 response.documents,
                 Default(args.format, StrLit("markdown")).s,
                 OutputFields(args),
                 SearchFullText(args),
                 <<<<"total", response.count>>, <<"offset", currentOffset>>>>,
                 <<buildPaginationLine(Len(response.documents), response.count,
                                       currentOffset)>>))

\* lines 259-271: what the handler returns once the search has resolved
SearchResume(args, response) ==
    IF response.count = 0
    THEN Success(<<NO_RESULTS>>)
    ELSE LET currentOffset == Default(args.offset, NumV(0)).v
         IN  Success(formatDocumentOutput(
                 response.documents,
                 Default(args.format, StrLit("markdown")).s,
                 OutputFields(args),
                 SearchFullText(args),
                 <<<<"total", response.count>>, <<"offset", currentOffset>>>>,
                 <<buildPaginationLine(Len(response.documents), response.count,
                                       currentOffset)>>))

\* line 273
SearchCatch(error) ==
    toolError(formatErrorMessage(Lit("searching AFP articles"), error,
                                 Lit("Check your query parameters and try again.")))

---------------------------------------------------------------------------
(* afp_find_similar *)

NO_SIMILAR == Lit("No similar articles found.")

SimilarResume(args, response) ==
    IF response.count = 0
    THEN Success(<<NO_SIMILAR>>)
    ELSE Success(formatDocumentOutput(
             response.documents,
             Default(args.format, StrLit("markdown")).s,
             OutputFields(args),
             FALSE,
             <<<<"total", response.count>>>>,
             <<Lit("*Found ") \o Num(response.count) \o Lit(" similar articles.*")>>))

VERIFY_UNO == Lit("Verify the UNO identifier is correct.")

SimilarCatch(args, error) ==
    toolError(formatErrorMessage(
        Lit("finding similar articles for \"") \o ToText(args.uno) \o Quote,
        error, VERIFY_UNO))

---------------------------------------------------------------------------
(* afp_get_article *)

GetResume(doc) == Success(<<formatFullArticle(doc)>>)

GetCatch(args, error) ==
    toolError(formatErrorMessage(
        Lit("fetching article \"") \o ToText(args.uno) \o Quote, error, VERIFY_UNO))

---------------------------------------------------------------------------
(* afp_list_facets *)

DEFAULT_LIST_SIZE == 10

MISSING_FACET ==
    Lit("Missing required parameter: facet (e.g. 'slug', 'genre', 'country'). Alternatively, use preset: 'trending-topics'.")

IsTrendingTopics(args) == args.preset = StrLit("trending-topics")

\* ResolvedFacet with the caller's facet taking precedence over the preset
ResolvedFacetCallerFirst(args) ==
    IF Truthy(args.facet) THEN args.facet
    ELSE IF IsTrendingTopics(args) THEN StrLit("slug") ELSE args.facet

\* line 44
ResolvedFacet(args) == IF IsTrendingTopics(args) THEN StrLit("slug") ELSE args.facet

\* lines 50-52
ListParams(args) ==
    LET size == Default(args.size, NumV(DEFAULT_LIST_SIZE))
    IN  IF IsTrendingTopics(args)
        THEN [langs |-> Arr(<<Default(args.lang, StrLit("fr"))>>),
              product |-> StrList(<<"news">>), dateFrom |-> StrLit("now-1d"), size |-> size]
        ELSE IF Truthy(args.lang)
        THEN [langs |-> Arr(<<args.lang>>), product |-> Absent, dateFrom |-> Absent,
              size |-> size]
        ELSE [langs |-> Absent, product |-> Absent, dateFrom |-> Absent, size |-> size]

EMDASH == <<Piece("SPACE EM-DASH SPACE", 3)>>

\* lines 55-75; raw is what apicore.list resolved with
ListResume(args, raw) ==
    LET results == IF raw.shape = "null" THEN <<>> ELSE raw.results
        facet == ResolvedFacet(args)
        format == Default(args.format, StrLit("markdown")).s
        csvName(r) ==
            IF NeedsQuoting(r.name)
            THEN Quote \o Doubled(r.name) \o Quote
            ELSE ToText(r.name)
    IN  IF results = <<>>
        THEN Success(<<Lit("No facet values found for \"") \o ToText(facet) \o Lit("\".")>>)
        ELSE IF format = "json"
        THEN Success(<<JsonBlock("[",
                 [i \in 1..Len(results) |->
                     JsonObject(<<<<"name", results[i].name>>,
                                  <<"count", NumV(results[i].count)>>>>, 2)],
                 "]", 0)>>)
        ELSE IF format = "csv"
        THEN Success(<<TJoin(<<Lit("name,count")>> \o
                 [i \in 1..Len(results) |->
                     csvName(results[i]) \o Lit(",") \o Num(results[i].count)],
                 Lit("\n"))>>)
        ELSE Success(<<Lit("## ")
                 \o (IF IsTrendingTopics(args) THEN Lit("Trending Topics")
                     ELSE Lit("Facet: ") \o ToText(facet))
                 \o Lit("\n\n")
                 \o TJoin([i \in 1..Len(results) |->
                             Lit("- **") \o ToText(results[i].name) \o Lit("**") \o EMDASH
                               \o Num(results[i].count) \o Lit(" articles")],
                          Lit("\n"))>>)

ListCatch(error) ==
    toolError(formatErrorMessage(Lit("listing facet values"), error,
        Lit("Check that the facet name is valid (e.g. 'slug', 'genre', 'country').")))

---------------------------------------------------------------------------
(* The documents, responses and arguments the tools are run on *)

NoDoc == [f \in DocKeys |-> Absent]

ParagraphsOf(name, lengths) ==
    Arr([i \in 1..Len(lengths) |-> Plain(name \o ToString(i), lengths[i])])

\* the fixture of the tests: five short paragraphs, every flag set
DocShort ==
    [NoDoc EXCEPT !["uno"] = StrLit("AFP-TEST-001"), !["headline"] = StrLit("Article 1"),
                  !["lang"] = StrLit("fr"), !["genre"] = StrLit("news"),
                  !["status"] = StrLit("Usable"), !["signal"] = StrLit("update"),
                  !["advisory"] = StrLit("CORRECTION"),
                  !["slug"] = StrList(<<"afp", "monde">>), !["revision"] = NumV(2),
                  !["news"] = ParagraphsOf("short", <<300, 300, 300, 300, 300>>)]

\* a long article: its four-paragraph excerpt nearly fills a response
DocLong ==
    [NoDoc EXCEPT !["uno"] = StrLit("AFP-TEST-002"), !["headline"] = Plain("headline2", 60),
                  !["lang"] = StrLit("en"), !["genre"] = StrLit("news"),
                  !["status"] = StrLit(""), !["country"] = StrLit("usa"),
                  !["news"] = ParagraphsOf("long", <<9000, 9000, 6000, 780, 7000, 20>>)]

\* a document without paragraphs whose headline alone exceeds the limit, with
\* an advisory of three lines
DocWide ==
    [NoDoc EXCEPT !["uno"] = StrLit("AFP-TEST-003"),
                  !["headline"] = Str("headline3", 26000, [NoSpecial EXCEPT !.cm = 2, !.dq = 1]),
                  !["lang"] = StrLit("fr"), !["genre"] = StrLit("news"),
                  !["advisory"] = Str("advisory3", 50, [NoSpecial EXCEPT !.nl = 2])]

Docs == {DocShort, DocLong, DocWide}

SeqsUpTo(S, n) == UNION {[1..m -> S] : m \in 0..n}

\* what search and mlt resolve with: count is 0, the number of documents, or more
DocResponses ==
    {[ok |-> TRUE, documents |-> d, count |-> c] :
        d \in SeqsUpTo(Docs, MaxDocs), c \in {0, 1, 2, 9}}

Errors == {"Network timeout", "Not found"}

Failures == {[ok |-> FALSE, error |-> e] : e \in Errors}

Formats == {Absent, StrLit("markdown"), StrLit("json"), StrLit("csv")}

FieldsArg(runs) == [k |-> "fields", runs |-> runs]

\* no fields, two fields twice, and one field seven thousand times over
FieldChoices ==
    {Absent, FieldsArg(Runs(<<"uno", "headline">>)), FieldsArg(Runs(<<"uno", "advisory">>)),
     FieldsArg(<<Run("headline", 1), Run("uno", 7000)>>)}

FacetsArg(entries) == [k |-> "facets", entries |-> entries]

\* lines 165-175: the keys that facets may not hold (preset, format, fields,
\* fullText, offset and facets are no keys of a request)
reservedFacetKeys == {"query", "size", "sortOrder"}

\* lines 188-198: the superRefine of the input schema
FacetsAccepted(entries) == \A key \in reservedFacetKeys : entries[key] = Absent

\* the facets a caller sends; the schema turns down the one that holds size
FacetChoices ==
    {Absent} \cup
    {FacetsArg(entries) :
        entries \in {e \in {[NoKeys EXCEPT !["lang"] = StrList(<<"en">>),
                                           !["product"] = StrList(<<"multimedia">>),
                                           !["country"] = StrList(<<"usa">>)],
                            [NoKeys EXCEPT !["genreid"] = StrList(<<"afpattribute:Sport">>)],
                            [NoKeys EXCEPT !["startAt"] = NumV(50)],
                            [NoKeys EXCEPT !["size"] = NumV(1000)]} :
                        FacetsAccepted(e)}}

SearchArgsOf(preset, format, fields, fullText, size, offset, facets) ==
    [preset |-> preset, format |-> format, fields |-> fields, fullText |-> fullText,
     query |-> StrLit("climate"), size |-> size, sortOrder |-> Absent, offset |-> offset,
     facets |-> facets]

PresetChoices == {Absent} \cup {StrLit(p) : p \in SearchPresetNames}

\* every request-shaping argument with the default rendering, and every
\* rendering argument with and without a preset
SearchArgs ==
    {SearchArgsOf(p, Absent, Absent, ft, sz, off, fa) :
        p \in PresetChoices, ft \in {Absent, BoolV(FALSE)}, sz \in {Absent, NumV(3)},
        off \in {Absent, NumV(2)}, fa \in FacetChoices}
    \cup
    {SearchArgsOf(p, fmt, fl, ft, Absent, off, Absent) :
        p \in {Absent, StrLit("a-la-une")}, fmt \in Formats, fl \in FieldChoices,
        ft \in {Absent, BoolV(TRUE), BoolV(FALSE)}, off \in {Absent, NumV(2)}}

Unos == {StrLit("AFP-TEST-001"), StrLit("BAD-UNO")}

SimilarArgs ==
    {[uno |-> u, lang |-> StrLit("fr"), size |-> sz, format |-> fmt, fields |-> fl] :
        u \in Unos, sz \in {Absent, NumV(5)}, fmt \in Formats, fl \in FieldChoices}

GetArgs == {[uno |-> u] : u \in Unos}

ListArgs ==
    {[preset |-> p, facet |-> f, lang |-> l, size |-> sz, format |-> fmt] :
        p \in {Absent, StrLit("trending-topics")}, f \in {Absent, StrLit(""), StrLit("genre")},
        l \in {Absent, StrLit("en")}, sz \in {Absent, NumV(30)}, fmt \in Formats}

FacetResults ==
    <<[name |-> StrLit("politics"), count |-> 12],
      [name |-> Str("sport", 18, [NoSpecial EXCEPT !.cm = 1, !.dq = 2]), count |-> 3]>>

\* an array, an object wrapping it under `keywords`, or null
ListResponses ==
    {[ok |-> TRUE, shape |-> sh, results |-> SubSeq(FacetResults, 1, n)] :
        sh \in {"array", "keywords"}, n \in 0..2}
    \cup {[ok |-> TRUE, shape |-> "null", results |-> <<>>]}

---------------------------------------------------------------------------
(* Spec: one tool invocation, from the call to the payload it returns.     *)
(* Each handler runs up to its single await (the upstream call), and       *)
(* completes when the upstream call resolves or rejects.                   *)

Init ==
    /\ inv = IdleInv
    /\ trunc = [pc |-> "off", n |-> 0, ser |-> <<>>, lo |-> 0, hi |-> 0, calls |-> 0,
                result |-> NoResult]
    /\ blocks = IdleBlocks
    /\ OthersIdle

Awaiting(tool, args, call) ==
    [pc |-> "awaiting", tool |-> tool, args |-> args, call |-> call,
     response |-> Absent, result |-> Absent]

Returned(response, result) ==
    [inv EXCEPT !.pc = "returned", !.response = response, !.result = result]

SearchCall(args) ==
    /\ inv.pc = "idle"
    /\ inv' = Awaiting("afp_search_articles", args,
                  [op |-> "search", request |-> SearchRequest(args),
                   fields |-> SearchApiFields(args)])
    /\ UNCHANGED <<trunc, blocks, others>>

SearchResolve(response) ==
    /\ inv.pc = "awaiting" /\ inv.tool = "afp_search_articles"
    /\ inv' = Returned(response, SearchResume(inv.args, response))
    /\ UNCHANGED <<trunc, blocks, others>>

SearchReject(failure) ==
    /\ inv.pc = "awaiting" /\ inv.tool = "afp_search_articles"
    /\ inv' = Returned(failure, SearchCatch(failure.error))
    /\ UNCHANGED <<trunc, blocks, others>>

SimilarCall(args) ==
    /\ inv.pc = "idle"
    /\ inv' = Awaiting("afp_find_similar", args,
                  [op |-> "mlt", uno |-> args.uno, lang |-> args.lang, size |-> args.size])
    /\ UNCHANGED <<trunc, blocks, others>>

SimilarResolve(response) ==
    /\ inv.pc = "awaiting" /\ inv.tool = "afp_find_similar"
    /\ inv' = Returned(response, SimilarResume(inv.args, response))
    /\ UNCHANGED <<trunc, blocks, others>>

SimilarReject(failure) ==
    /\ inv.pc = "awaiting" /\ inv.tool = "afp_find_similar"
    /\ inv' = Returned(failure, SimilarCatch(inv.args, failure.error))
    /\ UNCHANGED <<trunc, blocks, others>>

GetCall(args) ==
    /\ inv.pc = "idle"
    /\ inv' = Awaiting("afp_get_article", args, [op |-> "get", uno |-> args.uno])
    /\ UNCHANGED <<trunc, blocks, others>>

GetResolve(doc) ==
    /\ inv.pc = "awaiting" /\ inv.tool = "afp_get_article"
    /\ inv' = Returned([ok |-> TRUE, doc |-> doc], GetResume(doc))
    /\ UNCHANGED <<trunc, blocks, others>>

GetReject(failure) ==
    /\ inv.pc = "awaiting" /\ inv.tool = "afp_get_article"
    /\ inv' = Returned(failure, GetCatch(inv.args, failure.error))
    /\ UNCHANGED <<trunc, blocks, others>>

\* lines 46-48: no facet, no upstream call
ListMissingFacet(args) ==
    /\ inv.pc = "idle"
    /\ ~Truthy(ResolvedFacet(args))
    /\ inv' = [pc |-> "returned", tool |-> "afp_list_facets", args |-> args,
               call |-> Absent, response |-> Absent, result |-> toolError(MISSING_FACET)]
    /\ UNCHANGED <<trunc, blocks, others>>

\* ListCall without the test of line 46
ListCallUnguarded(args) ==
    /\ inv.pc = "idle"
    /\ inv' = Awaiting("afp_list_facets", args,
                  [op |-> "list", facet |-> ResolvedFacet(args), params |-> ListParams(args),
                   minDocCount |-> 1])
    /\ UNCHANGED <<trunc, blocks, others>>

ListCall(args) ==
    /\ inv.pc = "idle"
    /\ Truthy(ResolvedFacet(args))
    /\ inv' = Awaiting("afp_list_facets", args,
                  [op |-> "list", facet |-> ResolvedFacet(args), params |-> ListParams(args),
                   minDocCount |-> 1])
    /\ UNCHANGED <<trunc, blocks, others>>

ListResolve(raw) ==
    /\ inv.pc = "awaiting" /\ inv.tool = "afp_list_facets"
    /\ inv' = Returned(raw, ListResume(inv.args, raw))
    /\ UNCHANGED <<trunc, blocks, others>>

ListReject(failure) ==
    /\ inv.pc = "awaiting" /\ inv.tool = "afp_list_facets"
    /\ inv' = Returned(failure, ListCatch(failure.error))
    /\ UNCHANGED <<trunc, blocks, others>>

Next ==
    \/ \E args \in SearchArgs : SearchCall(args)
    \/ \E response \in DocResponses : SearchResolve(response)
    \/ \E failure \in Failures : SearchReject(failure)
    \/ \E args \in SimilarArgs : SimilarCall(args)
    \/ \E response \in DocResponses : SimilarResolve(response)
    \/ \E failure \in Failures : SimilarReject(failure)
    \/ \E args \in GetArgs : GetCall(args)
    \/ \E doc \in Docs : GetResolve(doc)
    \/ \E failure \in Failures : GetReject(failure)
    \/ \E args \in ListArgs : ListMissingFacet(args)
    \/ \E args \in ListArgs : ListCall(args)
    \/ \E raw \in ListResponses : ListResolve(raw)
    \/ \E failure \in Failures : ListReject(failure)

Spec == Init /\ [][Next]_vars

---------------------------------------------------------------------------
(* SpecPick: pickDocFields applied to a document and a list of names, and  *)
(* applied again to its own result with the same names                     *)

\* names of attributes the documents have, of attributes they lack, a name
\* that is no document field, and a name every object inherits
PickNames == {"uno", "headline", "slug", "city", "bogus", "constructor"}

PickDocs == Docs \cup {NoDoc}

\* the object Object.fromEntries builds from the entries <<name, value>>
AsObject(entries) ==
    [f \in {entries[i][1] : i \in 1..Len(entries)} |->
        LET i == CHOOSE i \in 1..Len(entries) : entries[i][1] = f IN entries[i][2]]

PickInit ==
    /\ \E doc \in PickDocs : \E names \in SeqsUpTo(PickNames, MaxNames) :
         pure = [pc |-> "start", fn |-> "pickDocFields", doc |-> doc, names |-> names,
                 result |-> Absent, again |-> Absent]
    /\ trunc = IdleTrunc /\ blocks = IdleBlocks /\ inv = IdleInv /\ RestIdle
    /\ flight = IdleFlight /\ server = IdleServer /\ mail = IdleMail

\* pickDocFields(doc, names)
PickProject ==
    /\ pure.pc = "start"
    /\ pure' = [pure EXCEPT !.pc = "projected",
                            !.result = pickDocFields(pure.doc, Runs(pure.names))]
    /\ UNCHANGED <<rest, trunc, blocks, inv, flight, server, mail>>

\* pickDocFields(result, names)
PickReproject ==
    /\ pure.pc = "projected"
    /\ pure' = [pure EXCEPT !.pc = "done",
                            !.again = pickDocFields(AsObject(pure.result), Runs(pure.names))]
    /\ UNCHANGED <<rest, trunc, blocks, inv, flight, server, mail>>

PickNext == PickProject \/ PickReproject

SpecPick == PickInit /\ [][PickNext]_vars

---------------------------------------------------------------------------
(* SpecConcurrent: several invocations of the registered handlers in       *)
(* flight together.  Each invocation is a call of the async arrow function *)
(* registerTools registers: it has its own args and awaits its own         *)
(* upstream promise.  The upstream settles a pending call or never does;   *)
(* once a promise is settled the event loop runs the continuation of the   *)
(* handler that awaits it.  Invocations are numbered in order of arrival.  *)

Slots == 1..MaxInFlight

ConcCalls ==
    {<<"afp_search_articles",
       SearchArgsOf(Absent, Absent, Absent, Absent, Absent, Absent, Absent)>>,
     <<"afp_find_similar",
       [uno |-> StrLit("AFP-TEST-001"), lang |-> StrLit("fr"), size |-> Absent,
        format |-> StrLit("json"), fields |-> Absent]>>,
     <<"afp_get_article", [uno |-> StrLit("AFP-TEST-001")]>>,
     <<"afp_list_facets",
       [preset |-> Absent, facet |-> StrLit("genre"), lang |-> Absent, size |-> Absent,
        format |-> Absent]>>,
     <<"afp_list_facets",
       [preset |-> Absent, facet |-> Absent, lang |-> Absent, size |-> Absent,
        format |-> Absent]>>}

\* what the upstream call of a tool can settle with
ConcResponses(tool) ==
    {[ok |-> FALSE, error |-> "Network timeout"]} \cup
    (CASE tool = "afp_get_article" -> {[ok |-> TRUE, doc |-> DocShort]}
       [] tool = "afp_list_facets" ->
            {[ok |-> TRUE, shape |-> "array", results |-> FacetResults]}
       [] OTHER -> {[ok |-> TRUE, documents |-> <<DocShort>>, count |-> 1]})

\* the rest of a handler after its await: the try block resumed with the
\* value the promise resolved with, or the catch block with the rejection
HandlerResume(tool, args, response) ==
    CASE tool = "afp_search_articles" ->
           IF response.ok THEN SearchResume(args, response) ELSE SearchCatch(response.error)
      [] tool = "afp_find_similar" ->
           IF response.ok THEN SimilarResume(args, response)
           ELSE SimilarCatch(args, response.error)
      [] tool = "afp_get_article" ->
           IF response.ok THEN GetResume(response.doc) ELSE GetCatch(args, response.error)
      [] OTHER ->
           IF response.ok THEN ListResume(args, response) ELSE ListCatch(response.error)

\* HandlerResume over the calls and outcomes of SpecConcurrent, tabulated
ConcPayloads ==
    [c \in ConcCalls |->
        [response \in ConcResponses(c[1]) |-> HandlerResume(c[1], c[2], response)]]

NotCalled ==
    [pc |-> "idle", tool |-> "none", args |-> Absent, response |-> Absent, result |-> Absent]

ConcInit ==
    /\ flight = [i \in Slots |-> NotCalled]
    /\ trunc = IdleTrunc /\ blocks = IdleBlocks /\ inv = IdleInv /\ RestIdle
    /\ pure = IdlePure /\ server = IdleServer /\ mail = IdleMail

\* CanResume for a server that runs its handlers one after the other: the
\* continuation waits for every invocation that arrived earlier
CanResumeInOrder(i) ==
    /\ flight[i].pc = "settled"
    /\ \A j \in 1..(i - 1) : flight[j].pc = "returned"

\* the continuation of invocation i is ready to run: its own promise is settled
CanResume(i) == flight[i].pc = "settled"

\* the i-th invocation arrives and runs up to its await (afp_list_facets
\* without a facet returns at once)
ConcCall(i, tool, args) ==
    /\ flight[i].pc = "idle"
    /\ \A j \in 1..(i - 1) : flight[j].pc # "idle"
    /\ flight' = [flight EXCEPT ![i] =
          IF tool = "afp_list_facets" /\ ~Truthy(ResolvedFacet(args))
          THEN [pc |-> "returned", tool |-> tool, args |-> args, response |-> Absent,
                result |-> toolError(MISSING_FACET)]
          ELSE [pc |-> "awaiting", tool |-> tool, args |-> args, response |-> Absent,
                result |-> Absent]]
    /\ UNCHANGED <<rest, trunc, blocks, inv, pure, server, mail>>

\* the upstream call of invocation i resolves or rejects
ConcSettle(i, response) ==
    /\ flight[i].pc = "awaiting"
    /\ response \in ConcResponses(flight[i].tool)
    /\ flight' = [flight EXCEPT ![i].pc = "settled", ![i].response = response]
    /\ UNCHANGED <<rest, trunc, blocks, inv, pure, server, mail>>

\* the event loop runs the continuation of invocation i to its return
ConcResume(i) ==
    /\ CanResume(i)
    /\ flight' = [flight EXCEPT
          ![i].pc = "returned",
          ![i].result = ConcPayloads[<<flight[i].tool, flight[i].args>>][flight[i].response]]
    /\ UNCHANGED <<rest, trunc, blocks, inv, pure, server, mail>>

ConcNext ==
    \/ \E i \in Slots : \E c \in ConcCalls : ConcCall(i, c[1], c[2])
    \/ \E i \in Slots : \E tool \in {c[1] : c \in ConcCalls} :
          \E response \in ConcResponses(tool) : ConcSettle(i, response)
    \/ \E i \in Slots : ConcResume(i)

\* no fairness on the upstream: a pending call may stay pending for ever;
\* a continuation whose promise is settled is eventually run
SpecConcurrent ==
    ConcInit /\ [][ConcNext]_vars /\ \A i \in Slots : WF_vars(ConcResume(i))

---------------------------------------------------------------------------
(* SpecServer: createServer, from its call to the promise it returns.  The *)
(* log lists, in order, what the call did to its collaborators: the client *)
(* constructed, the authentication requested, the registrations made.      *)

\* an option left out, given empty, or given
OptionValues(given) == {Absent, StrLit("")} \cup {StrLit(g) : g \in given}

CreateServerOptions ==
    [apiKey : OptionValues({"api-key", "other-key"}),
     username : OptionValues({"user", "admin"}),
     password : OptionValues({"pass", "secret"}),
     baseUrl : OptionValues({"https://custom.api.com"})]

MISSING_CONFIGURATION ==
    Lit("Missing authentication configuration")
      \o Lit(". Provide APICORE_API_KEY, APICORE_USERNAME and APICORE_PASSWORD.")

\* MissingConfiguration testing the API key only
MissingConfigurationKeyOnly(options) == ~Truthy(options.apiKey)

\* line 25: !apiKey || !username || !password
MissingConfiguration(options) ==
    ~Truthy(options.apiKey) \/ ~Truthy(options.username) \/ ~Truthy(options.password)

\* line 31: { ...(baseUrl ? { baseUrl } : {}), apiKey }
ClientConfig(options) ==
    [apiKey |-> options.apiKey,
     baseUrl |-> IF Truthy(options.baseUrl) THEN options.baseUrl ELSE Absent]

AuthErrors == {"Invalid credentials", "Network timeout"}

ServerInit ==
    /\ \E options \in CreateServerOptions :
         server = [pc |-> "called", options |-> options, log |-> <<>>, error |-> Absent]
    /\ trunc = IdleTrunc /\ blocks = IdleBlocks /\ inv = IdleInv /\ RestIdle
    /\ pure = IdlePure /\ flight = IdleFlight /\ mail = IdleMail

\* lines 25-29: the configuration is incomplete, createServer throws
CreateRejectMissing ==
    /\ server.pc = "called"
    /\ MissingConfiguration(server.options)
    /\ server' = [server EXCEPT !.pc = "rejected", !.error = MISSING_CONFIGURATION]
    /\ UNCHANGED <<rest, trunc, blocks, inv, pure, flight, mail>>

\* lines 31-32: the client is constructed and the authentication awaited
CreateAuthenticate ==
    /\ server.pc = "called"
    /\ ~MissingConfiguration(server.options)
    /\ server' = [server EXCEPT
          !.pc = "authenticating",
          !.log = <<[op |-> "new ApiCore", config |-> ClientConfig(server.options)],
                    [op |-> "authenticate", username |-> server.options.username,
                     password |-> server.options.password]>>]
    /\ UNCHANGED <<rest, trunc, blocks, inv, pure, flight, mail>>

\* lines 34-45: authenticated; the server is built, everything is registered
AuthResolve ==
    /\ server.pc = "authenticating"
    /\ server' = [server EXCEPT
          !.pc = "resolved",
          !.log = @ \o <<[op |-> "new McpServer"], [op |-> "registerTools"],
                         [op |-> "registerResources"], [op |-> "registerPrompts"]>>]
    /\ UNCHANGED <<rest, trunc, blocks, inv, pure, flight, mail>>

\* line 32: authenticate rejects, and createServer with it
AuthReject(error) ==
    /\ server.pc = "authenticating"
    /\ server' = [server EXCEPT !.pc = "rejected", !.error = Lit(error)]
    /\ UNCHANGED <<rest, trunc, blocks, inv, pure, flight, mail>>

ServerNext ==
    \/ CreateRejectMissing
    \/ CreateAuthenticate
    \/ AuthResolve
    \/ \E error \in AuthErrors : AuthReject(error)

SpecServer == ServerInit /\ [][ServerNext]_vars

---------------------------------------------------------------------------
(* SpecMail: notification-add-subscription and notification-delete-        *)
(* subscription called one after the other against the notification        *)
(* center.  The center holds the mail service or not, and the names of the *)
(* subscriptions in it.  A handler runs from one await to the next; the    *)
(* awaited call takes effect when it resolves, and any awaited call may    *)
(* reject, which the handlers do not catch.                                *)

SERVICE_NAME == "mcp-mail-service"

SubscriptionNames == {"alerts", "sports"}

\* the e-mail addresses callers pass
Emails == {"first@example.com", "second@example.com"}

\* the handler has returned or thrown: the call is complete
Completed(outcome) ==
    [mail EXCEPT !.pc = "idle", !.outcome = outcome, !.done = @ + 1]

\* the handler awaits the upstream call op
AwaitCall(state, op) == [state EXCEPT !.pc = op, !.log = Append(@, op)]

MailInit ==
    /\ mail = [pc |-> "idle", tool |-> "none", name |-> "", email |-> "",
               service |-> FALSE, address |-> "", subs |-> {},
               log |-> <<>>, listed |-> Absent, remaining |-> Absent,
               outcome |-> "none", confirmed |-> "", done |-> 0]
    /\ trunc = IdleTrunc /\ blocks = IdleBlocks /\ inv = IdleInv /\ RestIdle
    /\ pure = IdlePure /\ flight = IdleFlight /\ server = IdleServer

\* line 40, line 7: add-subscription is called and lists the services
AddCall(name, email) ==
    /\ mail.pc = "idle" /\ mail.done < MaxCalls
    /\ mail' = AwaitCall([mail EXCEPT !.tool = "notification-add-subscription",
                                      !.name = name, !.email = email, !.log = <<>>,
                                      !.listed = Absent, !.remaining = Absent,
                                      !.outcome = "none", !.confirmed = ""],
                         "listServices")
    /\ UNCHANGED <<rest, trunc, blocks, inv, pure, flight, server>>

\* lines 8-10 and 49: the services are listed; the service is registered
\* when SERVICE_NAME is not among them, else the subscription is added
ListServicesResolve ==
    /\ mail.pc = "listServices"
    /\ mail' = AwaitCall([mail EXCEPT !.listed = BoolV(mail.service)],
                         IF mail.service THEN "addSubscription" ELSE "registerService")
    /\ UNCHANGED <<rest, trunc, blocks, inv, pure, flight, server>>

\* lines 10-14 and 49: the service is registered with datas: { address:
\* email }; the subscription is added
RegisterServiceResolve ==
    /\ mail.pc = "registerService"
    /\ mail' = AwaitCall([mail EXCEPT !.service = TRUE, !.address = mail.email],
                         "addSubscription")
    /\ UNCHANGED <<rest, trunc, blocks, inv, pure, flight, server>>

\* lines 49-55: the subscription is added, the handler returns the message
\* 'Subscription "<name>" created (notifications sent to <email>).'
AddSubscriptionResolve ==
    /\ mail.pc = "addSubscription"
    /\ mail' = [Completed("resolved") EXCEPT !.subs = mail.subs \cup {mail.name},
                                             !.confirmed = mail.email]
    /\ UNCHANGED <<rest, trunc, blocks, inv, pure, flight, server>>

\* line 87: delete-subscription is called and deletes the subscription
DeleteCall(name) ==
    /\ mail.pc = "idle" /\ mail.done < MaxCalls
    /\ mail' = AwaitCall([mail EXCEPT !.tool = "notification-delete-subscription",
                                      !.name = name, !.email = "", !.log = <<>>,
                                      !.listed = Absent, !.remaining = Absent,
                                      !.outcome = "none", !.confirmed = ""],
                         "deleteSubscription")
    /\ UNCHANGED <<rest, trunc, blocks, inv, pure, flight, server>>

\* lines 87-88, line 19: the subscription is deleted; those left are listed
DeleteSubscriptionResolve ==
    /\ mail.pc = "deleteSubscription"
    /\ mail' = AwaitCall([mail EXCEPT !.subs = mail.subs \ {mail.name}],
                         "subscriptionsInService")
    /\ UNCHANGED <<rest, trunc, blocks, inv, pure, flight, server>>

\* lines 20-21 and 89-94: none is left and the service is deleted, or some
\* are left and the handler returns
SubscriptionsInServiceResolve ==
    /\ mail.pc = "subscriptionsInService"
    /\ mail' = IF mail.subs = {}
               THEN AwaitCall([mail EXCEPT !.remaining = NumV(0)], "deleteService")
               ELSE [Completed("resolved") EXCEPT
                        !.remaining = NumV(Cardinality(mail.subs))]
    /\ UNCHANGED <<rest, trunc, blocks, inv, pure, flight, server>>

\* lines 21 and 89-94: the service is deleted, the handler returns
DeleteServiceResolve ==
    /\ mail.pc = "deleteService"
    /\ mail' = [Completed("resolved") EXCEPT !.service = FALSE, !.address = ""]
    /\ UNCHANGED <<rest, trunc, blocks, inv, pure, flight, server>>

\* the awaited call rejects: the handler throws, the center is as it was
UpstreamReject ==
    /\ mail.pc \notin {"idle", "off"}
    /\ mail' = Completed("rejected")
    /\ UNCHANGED <<rest, trunc, blocks, inv, pure, flight, server>>

MailNext ==
    \/ \E name \in SubscriptionNames, email \in Emails : AddCall(name, email)
    \/ ListServicesResolve
    \/ RegisterServiceResolve
    \/ AddSubscriptionResolve
    \/ \E name \in SubscriptionNames : DeleteCall(name)
    \/ DeleteSubscriptionResolve
    \/ SubscriptionsInServiceResolve
    \/ DeleteServiceResolve
    \/ UpstreamReject

SpecMail == MailInit /\ [][MailNext]_vars

---------------------------------------------------------------------------
(* SpecEscape: escapeCsvValue applied to a value given by its characters,  *)
(* and the escaping of a facet name by the csv branch of afp_list_facets   *)

\* an ordinary character, the characters the regular expression tests for,
\* and the separator of joined sequences
Alphabet == {"a", ",", "\"", "\n", "\r", "|"}

\* the characters of a sequence of characters as one string
RECURSIVE Word(_)
Word(q) == IF q = <<>> THEN "" ELSE Head(q) \o Word(Tail(q))

\* the strings of at most n characters
Words(n) == {Word(q) : q \in SeqsUpTo(Alphabet, n)}

\* the elements of a sequence value: strings, null and undefined
EscapeElements == {Chars(w) : w \in Words(MaxChars - 1)} \cup {Absent, Null}

\* the values handed to escapeCsvValue
EscapeValues ==
    {Absent, Null}
      \cup {Chars(w) : w \in Words(MaxChars)}
      \cup {NumV(i) : i \in 0..MaxChars}
      \cup {Arr(<<>>)}
      \cup {Arr(<<x>>) : x \in EscapeElements}
      \cup {Arr(<<x, y>>) : x \in EscapeElements, y \in EscapeElements}

\* list-facets.ts line 68: the name of a facet value in a csv row
FacetCsvName(name) ==
    IF NeedsQuoting(name) THEN Quote \o Doubled(name) \o Quote ELSE ToText(name)

EscapeInit ==
    /\ \E v \in EscapeValues :
         pure = [pc |-> "start", fn |-> "none", value |-> v, result |-> <<>>]
    /\ trunc = IdleTrunc /\ blocks = IdleBlocks /\ inv = IdleInv /\ RestIdle
    /\ flight = IdleFlight /\ server = IdleServer /\ mail = IdleMail

\* escapeCsvValue(value)
EscapeValue ==
    /\ pure.pc = "start"
    /\ pure' = [pure EXCEPT !.pc = "escaped", !.fn = "escapeCsvValue",
                            !.result = escapeCsvValue(pure.value)]
    /\ UNCHANGED <<rest, trunc, blocks, inv, flight, server, mail>>

\* the csv row of afp_list_facets for a facet value named value
EscapeName ==
    /\ pure.pc = "start" /\ pure.value.k = "str"
    /\ pure' = [pure EXCEPT !.pc = "escaped", !.fn = "csvName",
                            !.result = FacetCsvName(pure.value)]
    /\ UNCHANGED <<rest, trunc, blocks, inv, flight, server, mail>>

EscapeNext == EscapeValue \/ EscapeName

SpecEscape == EscapeInit /\ [][EscapeNext]_vars

---------------------------------------------------------------------------
(* SpecConfig: the module-level tables as objects the handlers hold        *)
(* references to, under interleaved invocations of afp_search_articles and *)
(* afp_find_similar                                                        *)

\* the tables as the modules export them
StaticTables ==
    [SEARCH_PRESETS |-> SEARCH_PRESETS, GENRE_EXCLUSIONS |-> GENRE_EXCLUSIONS,
     ALL_DOC_FIELDS |-> ALL_DOC_FIELDS, DEFAULT_OUTPUT_FIELDS |-> DEFAULT_OUTPUT_FIELDS]

ConfigSearchArgs ==
    {SearchArgsOf(p, fmt, Absent, Absent, Absent, Absent, fa) :
        p \in PresetChoices, fmt \in {Absent, StrLit("csv")},
        fa \in {Absent, FacetsArg([NoKeys EXCEPT !["genreid"] = StrList(<<"afpattribute:Sport">>)])}}

ConfigSimilarArgs ==
    {[uno |-> StrLit("AFP-TEST-001"), lang |-> StrLit("fr"), size |-> Absent,
      format |-> StrLit("json"), fields |-> fl] :
        fl \in {Absent, FieldsArg(Runs(<<"uno">>))}}

NoCall == [pc |-> "idle"]

\* the names of the fields argument
FieldNames(fields) == [i \in 1..Len(fields.runs) |-> fields.runs[i].f]

\* the search handler up to its await with the preset bundle assigned in
\* place: Object.assign(SEARCH_PRESETS[preset], request)
SearchEntryInPlace(tables, args) ==
    LET request == SearchRequestFrom(tables.SEARCH_PRESETS, tables.GENRE_EXCLUSIONS, args)
    IN  [tables |-> IF Truthy(args.preset)
                    THEN [tables EXCEPT !.SEARCH_PRESETS[args.preset.s] = request]
                    ELSE tables,
         request |-> request,
         bundle |-> IF Truthy(args.preset) THEN tables.SEARCH_PRESETS[args.preset.s]
                    ELSE Absent,
         outputFields |-> IF args.fields = Absent THEN tables.DEFAULT_OUTPUT_FIELDS
                          ELSE FieldNames(args.fields)]

\* notifications.ts lines 235-258: the search handler up to its await.  The
\* request and outputFields are new objects ({ ...request, ...bundle },
\* [...DEFAULT_OUTPUT_FIELDS]); nothing is assigned to a table.
SearchEntry(tables, args) ==
    [tables |-> tables,
     request |-> SearchRequestFrom(tables.SEARCH_PRESETS, tables.GENRE_EXCLUSIONS, args),
     bundle |-> IF Truthy(args.preset) THEN tables.SEARCH_PRESETS[args.preset.s] ELSE Absent,
     outputFields |-> IF args.fields = Absent THEN tables.DEFAULT_OUTPUT_FIELDS
                      ELSE FieldNames(args.fields)]

ConfigInit ==
    /\ config = [pc |-> "on", tables |-> StaticTables, calls |-> [i \in Slots |-> NoCall]]
    /\ trunc = IdleTrunc /\ blocks = IdleBlocks /\ inv = IdleInv
    /\ pure = IdlePure /\ flight = IdleFlight /\ server = IdleServer /\ mail = IdleMail
    /\ http = IdleHttp /\ center = IdleCenter

\* afp_search_articles is invoked and reaches apicore.search
ConfigSearchCall(i, args) ==
    /\ config.calls[i].pc = "idle"
    /\ LET entry == SearchEntry(config.tables, args)
       IN  config' = [config EXCEPT
                         !.tables = entry.tables,
                         !.calls[i] = [pc |-> "awaiting", tool |-> "afp_search_articles",
                                       args |-> args, bundle |-> entry.bundle,
                                       request |-> entry.request,
                                       outputFields |-> entry.outputFields]]
    /\ UNCHANGED <<trunc, blocks, inv, pure, flight, server, mail, http, center>>

\* afp_find_similar is invoked and reaches apicore.mlt
ConfigSimilarCall(i, args) ==
    /\ config.calls[i].pc = "idle"
    /\ config' = [config EXCEPT
                     !.calls[i] = [pc |-> "awaiting", tool |-> "afp_find_similar",
                                   args |-> args, bundle |-> Absent, request |-> Absent,
                                   outputFields |-> <<>>]]
    /\ UNCHANGED <<trunc, blocks, inv, pure, flight, server, mail, http, center>>

\* the upstream call settles and the handler renders: part_014 line 58 takes
\* DEFAULT_OUTPUT_FIELDS itself, the formatters read the fields they are given
ConfigResume(i) ==
    /\ config.calls[i].pc = "awaiting"
    /\ config' = [config EXCEPT
                     !.calls[i].pc = "returned",
                     !.calls[i].outputFields =
                         IF config.calls[i].tool = "afp_search_articles" THEN @
                         ELSE IF config.calls[i].args.fields = Absent
                              THEN config.tables.DEFAULT_OUTPUT_FIELDS
                              ELSE FieldNames(config.calls[i].args.fields)]
    /\ UNCHANGED <<trunc, blocks, inv, pure, flight, server, mail, http, center>>

\* the result is delivered and the slot serves the next invocation
ConfigDeliver(i) ==
    /\ config.calls[i].pc = "returned"
    /\ config' = [config EXCEPT !.calls[i] = NoCall]
    /\ UNCHANGED <<trunc, blocks, inv, pure, flight, server, mail, http, center>>

ConfigNext ==
    \E i \in Slots :
        \/ \E args \in ConfigSearchArgs : ConfigSearchCall(i, args)
        \/ \E args \in ConfigSimilarArgs : ConfigSimilarCall(i, args)
        \/ ConfigResume(i)
        \/ ConfigDeliver(i)

SpecConfig == ConfigInit /\ [][ConfigNext]_vars

---------------------------------------------------------------------------
(* SpecHttp: the /mcp endpoint of startHttpServer.  Requests that end      *)
(* without creating a session are handled in one step; a session-creating  *)
(* request is suspended at each of its awaits, and a transport may close   *)
(* at any time after it was connected.                                     *)

\* the transports the server creates in one run
Transports == {1, 2}

\* sessionIdGenerator: crypto.randomUUID() of the i-th transport
SessionIdOf(i) == "session-" \o ToString(i)

\* an Authorization header: its scheme and the text its payload decodes to
AuthHeader(scheme, decoded) == [k |-> "header", scheme |-> scheme, decoded |-> decoded]

AuthHeaders ==
    {Absent, AuthHeader("Bearer", "alice:secret"), AuthHeader("Basic", "alice"),
     AuthHeader("Basic", "alice:secret"), AuthHeader("basic", "bob:hunter2")}

\* the mcp-session-id header
SessionHeaders ==
    {Absent, StrLit("")} \cup {StrLit(SessionIdOf(i)) : i \in Transports}
      \cup {StrLit("session-unknown")}

\* decoded.indexOf(':') counted from 1, 0 when there is none
IndexOfColon(decoded) ==
    IF \E i \in 1..Len(decoded) : SubSeq(decoded, i, i) = ":"
    THEN CHOOSE i \in 1..Len(decoded) :
             /\ SubSeq(decoded, i, i) = ":"
             /\ \A j \in 1..(i - 1) : SubSeq(decoded, j, j) # ":"
    ELSE 0

\* lines 7-17: /^Basic\s+(.+)$/i, then the split at the first colon
decodeBasicAuth(header) ==
    IF header.scheme \notin {"Basic", "basic", "BASIC"} \/ header.decoded = "" THEN Null
    ELSE LET colon == IndexOfColon(header.decoded)
         IN  IF colon = 0 THEN Null
             ELSE [k |-> "credentials",
                   username |-> SubSeq(header.decoded, 1, colon - 1),
                   password |-> SubSeq(header.decoded, colon + 1, Len(header.decoded))]

\* Route with the session looked up before the Authorization header
RouteSessionFirst(authHeader, sessionId, sessions) ==
    IF Truthy(sessionId) /\ sessionId.s \in DOMAIN sessions THEN "delegate"
    ELSE IF authHeader = Absent THEN "401 Authorization header required"
    ELSE IF decodeBasicAuth(authHeader) = Null THEN "401 Invalid Basic auth header"
    ELSE IF Truthy(sessionId) THEN "404 Session not found"
    ELSE "create"

\* lines 51-74: the branch a request takes
Route(authHeader, sessionId, sessions) ==
    IF authHeader = Absent THEN "401 Authorization header required"
    ELSE IF decodeBasicAuth(authHeader) = Null THEN "401 Invalid Basic auth header"
    ELSE IF Truthy(sessionId) /\ sessionId.s \in DOMAIN sessions THEN "delegate"
    ELSE IF Truthy(sessionId) THEN "404 Session not found"
    ELSE "create"

NoTransport ==
    [pc |-> "unused", credentials |-> Null, initialize |-> FALSE, sessionId |-> Absent,
     onclose |-> FALSE, closed |-> FALSE, server |-> "none"]

NoRequest ==
    [n |-> 0, authHeader |-> Absent, sessionId |-> Absent, outcome |-> "none", via |-> 0]

\* sessions.set(sid, ...)
MapSet(sessions, sid, t) ==
    [key \in DOMAIN sessions \cup {sid} |-> IF key = sid THEN t ELSE sessions[key]]

\* sessions.delete(sid)
MapDelete(sessions, sid) == [key \in DOMAIN sessions \ {sid} |-> sessions[key]]

HttpInit ==
    /\ http = [pc |-> "listening", sessions |-> <<>>,
               transports |-> [t \in Transports |-> NoTransport], last |-> NoRequest]
    /\ trunc = IdleTrunc /\ blocks = IdleBlocks /\ inv = IdleInv
    /\ pure = IdlePure /\ flight = IdleFlight /\ server = IdleServer /\ mail = IdleMail
    /\ config = IdleConfig /\ center = IdleCenter

\* the request as the log of the run keeps it
Logged(authHeader, sessionId, outcome, via) ==
    [n |-> 1 - http.last.n, authHeader |-> authHeader, sessionId |-> sessionId,
     outcome |-> outcome, via |-> via]

\* lines 51-74: a request answered 401 or 404, or handed to the transport of
\* its session
HttpAnswer(authHeader, sessionId) ==
    LET route == Route(authHeader, sessionId, http.sessions)
    IN  /\ route # "create"
        /\ http' = [http EXCEPT
               !.last = Logged(authHeader, sessionId, route,
                               IF route = "delegate" THEN http.sessions[sessionId.s] ELSE 0)]
        /\ UNCHANGED <<trunc, blocks, inv, pure, flight, server, mail, config, center>>

\* lines 76-81: a request without session id: the transport is constructed
\* and createServer is called with the credentials of the request
HttpCreate(authHeader, sessionId, initialize) ==
    /\ Route(authHeader, sessionId, http.sessions) = "create"
    /\ \E t \in Transports :
         /\ http.transports[t].pc = "unused"
         /\ \A u \in Transports : u < t => http.transports[u].pc # "unused"
         /\ http' = [http EXCEPT
                !.transports[t] = [NoTransport EXCEPT
                                      !.pc = "creating",
                                      !.credentials = decodeBasicAuth(authHeader),
                                      !.initialize = initialize],
                !.last = Logged(authHeader, sessionId, "create", t)]
    /\ UNCHANGED <<trunc, blocks, inv, pure, flight, server, mail, config, center>>

\* line 81: createServer resolves, its client authenticated with the
\* credentials it was given; server.connect(transport) is called
HttpServerCreated(t) ==
    /\ http.transports[t].pc = "creating"
    /\ http.transports[t].credentials.username # ""
    /\ http.transports[t].credentials.password # ""
    /\ http' = [http EXCEPT !.transports[t].pc = "connecting",
                            !.transports[t].server = "authenticated"]
    /\ UNCHANGED <<trunc, blocks, inv, pure, flight, server, mail, config, center>>

\* line 81: createServer rejects (configuration missing or authentication
\* refused); the handler ends there
HttpServerRejected(t) ==
    /\ http.transports[t].pc = "creating"
    /\ http' = [http EXCEPT !.transports[t].pc = "failed"]
    /\ UNCHANGED <<trunc, blocks, inv, pure, flight, server, mail, config, center>>

\* lines 82-92: connect resolves, onclose is set and handleRequest is
\* called; the transport assigns its session id to an initialize request
HttpConnected(t) ==
    /\ http.transports[t].pc = "connecting"
    /\ http' = [http EXCEPT
           !.transports[t].pc = "handling",
           !.transports[t].onclose = TRUE,
           !.transports[t].sessionId =
               IF http.transports[t].initialize THEN StrLit(SessionIdOf(t)) ELSE Absent]
    /\ UNCHANGED <<trunc, blocks, inv, pure, flight, server, mail, config, center>>

\* lines 92-98: handleRequest resolves and the session is stored
HttpHandled(t) ==
    /\ http.transports[t].pc = "handling"
    /\ LET sid == http.transports[t].sessionId
       IN  http' = [http EXCEPT
               !.transports[t].pc = "done",
               !.sessions = IF Truthy(sid) THEN MapSet(@, sid.s, t) ELSE @]
    /\ UNCHANGED <<trunc, blocks, inv, pure, flight, server, mail, config, center>>

\* lines 84-90: the transport closes and its onclose callback runs
TransportClose(t) ==
    /\ http.transports[t].pc \in {"handling", "done"}
    /\ ~http.transports[t].closed
    /\ LET sid == http.transports[t].sessionId
       IN  http' = [http EXCEPT
               !.transports[t].closed = TRUE,
               !.sessions = IF http.transports[t].onclose /\ Truthy(sid)
                            THEN MapDelete(@, sid.s) ELSE @]
    /\ UNCHANGED <<trunc, blocks, inv, pure, flight, server, mail, config, center>>

HttpNext ==
    \/ \E authHeader \in AuthHeaders, sessionId \in SessionHeaders :
           \/ HttpAnswer(authHeader, sessionId)
           \/ \E initialize \in BOOLEAN : HttpCreate(authHeader, sessionId, initialize)
    \/ \E t \in Transports :
           \/ HttpServerCreated(t)
           \/ HttpServerRejected(t)
           \/ HttpConnected(t)
           \/ HttpHandled(t)
           \/ TransportClose(t)

SpecHttp == HttpInit /\ [][HttpNext]_vars

---------------------------------------------------------------------------
(* SpecMailConcurrent: the handlers of notification-add-subscription and   *)
(* notification-delete-subscription running concurrently against one       *)
(* notification center.  Each handler runs from one await to the next; the *)
(* awaited call takes effect on the center when it resolves.  The center   *)
(* refuses a subscription to a service that does not exist; whether it     *)
(* accepts a second registration of an existing service, and whether the   *)
(* subscriptions of a deleted service survive it, is left open.            *)

NoHandler == [pc |-> "idle", tool |-> "none", name |-> ""]

CenterInit ==
    /\ center = [pc |-> "on", service |-> FALSE, registrations |-> 0, subs |-> {},
                 calls |-> [i \in Slots |-> NoHandler]]
    /\ trunc = IdleTrunc /\ blocks = IdleBlocks /\ inv = IdleInv
    /\ pure = IdlePure /\ flight = IdleFlight /\ server = IdleServer /\ mail = IdleMail
    /\ config = IdleConfig /\ http = IdleHttp

OutsideCenter == <<trunc, blocks, inv, pure, flight, server, mail, config, http>>

\* line 40, line 7: add-subscription is called and lists the services
CenterAddCall(i, name) ==
    /\ center.calls[i].pc = "idle"
    /\ center' = [center EXCEPT
           !.calls[i] = [pc |-> "listServices", tool |-> "notification-add-subscription",
                         name |-> name]]
    /\ UNCHANGED OutsideCenter

\* lines 8-10 and 49: the services are listed
CenterListServicesResolve(i) ==
    /\ center.calls[i].pc = "listServices"
    /\ center' = [center EXCEPT
           !.calls[i].pc = IF center.service THEN "addSubscription" ELSE "registerService"]
    /\ UNCHANGED OutsideCenter

\* lines 10-14 and 49: registerService resolves
CenterRegisterServiceResolve(i) ==
    /\ center.calls[i].pc = "registerService"
    /\ center' = [center EXCEPT
           !.service = TRUE,
           !.registrations = IF center.service THEN 2 ELSE 1,
           !.calls[i].pc = "addSubscription"]
    /\ UNCHANGED OutsideCenter

\* lines 49-55: addSubscription resolves, the handler returns
CenterAddSubscriptionResolve(i) ==
    /\ center.calls[i].pc = "addSubscription"
    /\ center.service
    /\ center' = [center EXCEPT !.subs = @ \cup {center.calls[i].name},
                                !.calls[i] = NoHandler]
    /\ UNCHANGED OutsideCenter

\* line 87: delete-subscription is called and deletes the subscription
CenterDeleteCall(i, name) ==
    /\ center.calls[i].pc = "idle"
    /\ center' = [center EXCEPT
           !.calls[i] = [pc |-> "deleteSubscription",
                         tool |-> "notification-delete-subscription", name |-> name]]
    /\ UNCHANGED OutsideCenter

\* lines 87-88, line 19: deleteSubscription resolves
CenterDeleteSubscriptionResolve(i) ==
    /\ center.calls[i].pc = "deleteSubscription"
    /\ center' = [center EXCEPT !.subs = @ \ {center.calls[i].name},
                                !.calls[i].pc = "subscriptionsInService"]
    /\ UNCHANGED OutsideCenter

\* lines 19-21 and 89-94: the subscriptions left are listed
CenterSubscriptionsInServiceResolve(i) ==
    /\ center.calls[i].pc = "subscriptionsInService"
    /\ center' = [center EXCEPT
           !.calls[i] = IF center.subs = {} THEN [@ EXCEPT !.pc = "deleteService"]
                        ELSE NoHandler]
    /\ UNCHANGED OutsideCenter

\* lines 21 and 89-94: deleteService resolves, the handler returns
CenterDeleteServiceResolve(i) ==
    /\ center.calls[i].pc = "deleteService"
    /\ center.service
    /\ \E kept \in {center.subs, {}} :
         center' = [center EXCEPT !.service = FALSE, !.registrations = 0, !.subs = kept,
                                  !.calls[i] = NoHandler]
    /\ UNCHANGED OutsideCenter

\* the awaited call rejects: the handler throws, the center is as it was
CenterReject(i) ==
    /\ center.calls[i].pc # "idle"
    /\ center' = [center EXCEPT !.calls[i] = NoHandler]
    /\ UNCHANGED OutsideCenter

CenterNext ==
    \E i \in Slots :
        \/ \E name \in SubscriptionNames : CenterAddCall(i, name)
        \/ CenterListServicesResolve(i)
        \/ CenterRegisterServiceResolve(i)
        \/ CenterAddSubscriptionResolve(i)
        \/ \E name \in SubscriptionNames : CenterDeleteCall(i, name)
        \/ CenterDeleteSubscriptionResolve(i)
        \/ CenterSubscriptionsInServiceResolve(i)
        \/ CenterDeleteServiceResolve(i)
        \/ CenterReject(i)

SpecMailConcurrent == CenterInit /\ [][CenterNext]_vars

---------------------------------------------------------------------------
(* Claims about truncateToLimit, under SpecTruncate *)

SerLen(k) == TLen(trunc.ser[k])

\* the precondition: the output length never decreases as the prefix grows
Monotone == \A j, k \in 0..trunc.n : j <= k => SerLen(j) <= SerLen(k)

Oversized == trunc.pc = "done" /\ SerLen(trunc.n) > CHARACTER_LIMIT

\* r is the truncation to the maximal prefix that fits
MaximalPrefix(r) ==
    /\ r.truncated
    /\ r.count \in 0..(trunc.n - 1)
    /\ r.text = trunc.ser[r.count]
    /\ SerLen(r.count) <= CHARACTER_LIMIT
    /\ SerLen(r.count + 1) > CHARACTER_LIMIT
    /\ \A k \in 0..trunc.n : SerLen(k) <= CHARACTER_LIMIT => k <= r.count

---------------------------------------------------------------------------
(* Claims about truncateIfNeeded, under SpecBlocks *)

BlocksDone == blocks.pc = "done"

PrefixLen(k) == SumLen(SubSeq(blocks.content, 1, k))

\* the number of blocks of the longest prefix whose cumulative length fits
FittingPrefix ==
    CHOOSE k \in 0..Len(blocks.content) :
        /\ PrefixLen(k) <= CHARACTER_LIMIT
        /\ \A j \in 0..Len(blocks.content) : PrefixLen(j) <= CHARACTER_LIMIT => j <= k

\* C5: when the blocks sum to more than 25,000 characters, truncateIfNeeded
\* returns the longest fitting prefix of the blocks, unchanged and in order;
\* then, exactly when more than 100 characters of budget remain, the first
\* `remaining` characters of the first overflowing block followed by the
\* ellipsis marker; then one notice block; and nothing of the blocks after the
\* overflowing one.
C5_GreedyTruncation ==
    BlocksDone /\ SumLen(blocks.content) > CHARACTER_LIMIT =>
        LET k == FittingPrefix
            remaining == CHARACTER_LIMIT - PrefixLen(k)
            cut == IF remaining > 100
                   THEN <<TSlice(blocks.content[k + 1], remaining) \o Lit("\n\n[...truncated]")>>
                   ELSE <<>>
        IN  /\ k < Len(blocks.content)
            /\ blocks.result = SubSeq(blocks.content, 1, k) \o cut \o <<TRUNCATION_HINT>>
            /\ truncateIfNeeded(blocks.content) = blocks.result

\* a block is cut, and the block after it, which would have fit, is left out
C5_Witness ==
    /\ BlocksDone /\ SumLen(blocks.content) > CHARACTER_LIMIT
    /\ Len(blocks.content) = 3 /\ FittingPrefix = 1
    /\ CHARACTER_LIMIT - PrefixLen(1) > 100
    /\ TLen(blocks.content[3]) < CHARACTER_LIMIT - PrefixLen(1)
    /\ Len(blocks.result) = 3

---------------------------------------------------------------------------
(* Claims about the tool handlers, under Spec *)

ReturnedBy(tools) == inv.pc = "returned" /\ inv.tool \in tools

DocTools == {"afp_search_articles", "afp_find_similar"}

\* the upstream call of the invocation resolved / rejected
Resolved == inv.response # Absent /\ inv.response.ok

Rejected == inv.response # Absent /\ ~inv.response.ok

\* search or mlt resolved with a count other than 0: the result is rendered
Rendered == ReturnedBy(DocTools) /\ Resolved /\ inv.response.count # 0

IsSearch == inv.tool = "afp_search_articles"

FormatOf == IF inv.args.format = Absent THEN "markdown" ELSE inv.args.format.s

FieldsOf == IF inv.args.fields = Absent THEN Runs(<<"uno", "headline", "lang", "genre">>)
            ELSE inv.args.fields.runs

OffsetOf == IF inv.args.offset = Absent THEN 0 ELSE inv.args.offset.v

\* the rendering of all the documents of the response, nothing cut
CompleteRendering ==
    LET docs == inv.response.documents
        count == inv.response.count
    IN  IF FormatOf = "json"
        THEN <<JsonEnvelope(
                 IF IsSearch THEN <<<<"total", count>>, <<"offset", OffsetOf>>>>
                 ELSE <<<<"total", count>>>>,
                 [i \in 1..Len(docs) |-> pickDocFields(docs[i], FieldsOf)], Len(docs))>>
        ELSE IF FormatOf = "csv"
        THEN <<CsvLines(CsvHeader(FieldsOf),
                        [i \in 1..Len(docs) |-> CsvRow(docs[i], FieldsOf)], Len(docs))>>
        ELSE <<IF IsSearch THEN buildPaginationLine(Len(docs), count, OffsetOf)
               ELSE Lit("*Found ") \o Num(count) \o Lit(" similar articles.*")>>
             \o [i \in 1..Len(docs) |->
                    formatDocument(docs[i], IF IsSearch THEN SearchFullText(inv.args)
                                            ELSE FALSE)]

Exceeded == SumLen(CompleteRendering) > CHARACTER_LIMIT

Content == inv.result.content

IsNotice(block) == block = TRUNCATION_HINT

Notices == {i \in 1..Len(Content) : IsNotice(Content[i])}

\* the blocks of the payload other than the notice
Body == SelectSeq(Content, LAMBDA b : ~IsNotice(b))

\* C2: whenever the complete rendering is at most 25,000 characters nothing
\* is truncated, in any format: the payload is the complete rendering, block
\* for block and in order, with no notice block, and truncateToLimit returns
\* the serialization of all items with count = items.length and truncated = false.
C2_NothingTruncatedWhenFits ==
    Rendered /\ ~Exceeded =>
        /\ Content = CompleteRendering
        /\ Notices = {}
        /\ FormatOf = "json" =>
             LET documents == [i \in 1..Len(inv.response.documents) |->
                                  pickDocFields(inv.response.documents[i], FieldsOf)]
                 ser == [k \in 0..Len(documents) |->
                            JsonEnvelope(<<<<"total", inv.response.count>>>>, documents, k)]
             IN  truncateToLimit(Len(documents), ser) =
                     [text |-> ser[Len(documents)], count |-> Len(documents),
                      truncated |-> FALSE]
        /\ FormatOf = "markdown" => truncateIfNeeded(CompleteRendering) = CompleteRendering

\* two documents rendered as JSON within the limit
C2_Witness ==
    /\ Rendered /\ ~Exceeded /\ FormatOf = "json"
    /\ Len(inv.response.documents) = 2
    /\ Len(Content) = 1

\* C3 as stated: for every tool, format and upstream result the content
\* blocks of the returned payload total at most 25,000 characters.
C3_CeilingPerResponse ==
    inv.pc = "returned" => SumLen(Content) <= CHARACTER_LIMIT

\* C3 amended: in a success payload of afp_search_articles or afp_find_similar
\* the blocks other than the truncation notice total at most 25,000
\* characters, plus the 16 characters of the ellipsis marker in markdown;
\* the one exception is a CSV body that is the header line alone, when the
\* header line of the requested fields is itself longer than 25,000 characters.
C3_CeilingOfRenderedBody ==
    ReturnedBy(DocTools) /\ Resolved =>
        \/ SumLen(Body) <= CHARACTER_LIMIT + (IF FormatOf = "markdown" THEN 16 ELSE 0)
        \/ FormatOf = "csv" /\ Body = <<CsvHeader(FieldsOf)>>

\* a markdown payload cut to exactly 25,000 characters plus the marker
C3_Witness ==
    /\ Rendered /\ Exceeded /\ FormatOf = "markdown"
    /\ SumLen(Body) = CHARACTER_LIMIT + 16

\* the payload ends with one notice block, and holds no other
EndsWithOneNotice == Notices = {Len(Content)} /\ Len(Content) >= 1

\* some content of the complete rendering is missing from the payload
ContentCut == Body # CompleteRendering

PaginationLine == Content[1]

HasHint(line) == Contains(line, Piece(" Use offset=", 12))

\* C6: the pagination line reports shown, total and offset, and holds the
\* hint 'Use offset=<offset+shown> to see more.' if and only if
\* total > offset + shown.
C6_PaginationHint ==
    Rendered /\ IsSearch /\ FormatOf = "markdown" =>
        LET shown == Len(inv.response.documents)
            total == inv.response.count
            report == Lit("*Showing ") \o Lit(ToString(shown)) \o Lit(" of ")
                        \o Lit(ToString(total)) \o Lit(" results (offset: ")
                        \o Lit(ToString(OffsetOf)) \o Lit(").")
            hint == Lit(" Use offset=") \o Lit(ToString(OffsetOf + shown))
                        \o Lit(" to see more.")
        IN  /\ SubSeq(PaginationLine, 1, Len(report)) = report
            /\ HasHint(PaginationLine) <=> total > OffsetOf + shown
            /\ PaginationLine = report \o (IF HasHint(PaginationLine) THEN hint ELSE <<>>)
                                  \o Lit("*")
            /\ buildPaginationLine(3, 3, 0) =
                  Lit("*Showing ") \o Lit("3") \o Lit(" of ") \o Lit("3")
                    \o Lit(" results (offset: ") \o Lit("0") \o Lit(").") \o Lit("*")

\* the last page: total = offset + shown, and no hint
C6_Witness ==
    /\ Rendered /\ IsSearch /\ FormatOf = "markdown"
    /\ Len(inv.response.documents) = 2 /\ inv.response.count = 2 /\ OffsetOf = 0
    /\ ~HasHint(PaginationLine)

\* an invocation of afp_search_articles with a preset, its request sent
PresetSearch ==
    /\ inv.pc \in {"awaiting", "returned"} /\ IsSearch
    /\ inv.args.preset # Absent

\* C7: with a preset, the request sent upstream is the caller's base request
\* with every key the preset defines set to the preset's value and every
\* other key left as the caller or the defaults set it (a-la-une: lang =
\* ['fr'], product = ['news'], slug = ['afp', 'actualites'], dateFrom =
\* 'now-1d', size = 1), and the documents are rendered with fullText = true
\* whatever the caller passed.
C7_PresetOverrides ==
    PresetSearch =>
        LET preset == SEARCH_PRESETS[inv.args.preset.s]
            request == inv.call.request
            base == SearchRequest([inv.args EXCEPT !.preset = Absent])
        IN  /\ \A key \in RequestKeys :
                  request[key] = IF preset[key] # Absent THEN preset[key] ELSE base[key]
            /\ inv.args.preset.s = "a-la-une" =>
                  /\ request["lang"] = StrList(<<"fr">>)
                  /\ request["product"] = StrList(<<"news">>)
                  /\ request["slug"] = StrList(<<"afp", "actualites">>)
                  /\ request["dateFrom"] = StrLit("now-1d")
                  /\ request["size"] = NumV(1)
                  /\ request["query"] = inv.args.query
                  /\ request["startAt"] = base["startAt"]
            /\ inv.args.preset.s = "agenda" /\ inv.args.facets # Absent =>
                  request["lang"] = inv.args.facets.entries["lang"]
            /\ inv.pc = "returned" /\ Resolved =>
                  inv.result = SearchResume([inv.args EXCEPT !.preset = Absent,
                                                             !.fullText = BoolV(TRUE)],
                                            inv.response)

\* a-la-une over a caller's size, lang and product, fullText = false: the
\* fifth paragraph of the fixture is rendered
C7_Witness ==
    /\ PresetSearch /\ inv.pc = "returned" /\ Resolved
    /\ inv.args.preset.s = "a-la-une"
    /\ inv.args.size = NumV(3) /\ inv.args.facets # Absent
    /\ inv.args.fullText = BoolV(FALSE)
    /\ inv.response.documents = <<DocShort>> /\ inv.response.count = 1
    /\ Contains(Content[2], Piece("short5", 300))

\* C8: when the search reports count = 0, afp_search_articles returns, in
\* every format, a success payload of exactly one text block reading
\* 'No results found.'
C8_NoResultsOnZeroCount ==
    ReturnedBy({"afp_search_articles"}) /\ Resolved /\ inv.response.count = 0 =>
        /\ ~inv.result.isError
        /\ Content = <<Lit("No results found.")>>

\* count = 0 on a CSV request
C8_Witness ==
    /\ ReturnedBy({"afp_search_articles"}) /\ Resolved /\ inv.response.count = 0
    /\ FormatOf = "csv" /\ inv.response.documents = <<>>
    /\ Len(Content) = 1

\* C9: whenever the upstream returns zero documents, whatever the count,
\* afp_search_articles and afp_find_similar return a single text block
\* stating that no results were found, in every format.
C9_NoResultsOnZeroDocuments ==
    ReturnedBy(DocTools) /\ Resolved /\ inv.response.documents = <<>> =>
        /\ ~inv.result.isError
        /\ Content \in {<<Lit("No results found.")>>, <<Lit("No similar articles found.")>>}

\* the text of the identifier the caller passed, for get and mlt
Identifier == Piece(inv.args.uno.s, inv.args.uno.n)

\* C10: if the upstream call of a tool rejects, the handler returns a payload
\* with isError = true and exactly one text block, whose message holds the
\* operation context (for afp_get_article and afp_find_similar the identifier
\* the caller passed), the failure's message and a remediation hint.
C10_ErrorPayload ==
    inv.pc = "returned" /\ Rejected =>
        LET message == Content[1]
            cause == Piece(inv.response.error, Len(inv.response.error))
            context ==
                CASE inv.tool = "afp_search_articles" -> Lit("searching AFP articles")
                  [] inv.tool = "afp_list_facets" -> Lit("listing facet values")
                  [] inv.tool = "afp_get_article" ->
                       Lit("fetching article \"") \o <<Identifier>> \o Lit("\"")
                  [] OTHER ->
                       Lit("finding similar articles for \"") \o <<Identifier>> \o Lit("\"")
            hint ==
                CASE inv.tool = "afp_search_articles" ->
                       Lit("Check your query parameters and try again.")
                  [] inv.tool = "afp_list_facets" ->
                       Lit("Check that the facet name is valid (e.g. 'slug', 'genre', 'country').")
                  [] OTHER -> Lit("Verify the UNO identifier is correct.")
        IN  /\ inv.result.isError
            /\ Len(Content) = 1
            /\ message = Lit("Error ") \o context \o Lit(": ") \o <<cause>> \o Lit(". ") \o hint
            /\ Contains(message, cause)
            /\ inv.tool \in {"afp_get_article", "afp_find_similar"} =>
                  Contains(message, Identifier)

\* get("BAD-UNO") rejected with 'Not found'
C10_Witness ==
    /\ ReturnedBy({"afp_get_article"}) /\ Rejected
    /\ inv.args.uno = StrLit("BAD-UNO") /\ inv.response.error = "Not found"
    /\ Contains(Content[1], Piece("BAD-UNO", 7))
    /\ Contains(Content[1], Piece("Not found", 9))

\* C11: when afp_list_facets is called with neither a facet nor the
\* trending-topics preset, the invocation returns an error payload whose one
\* block names the missing parameter 'facet', and at no point of that
\* invocation is an upstream list call issued or awaited.
C11_MissingFacetBeforeUpstream ==
    /\ inv.tool = "afp_list_facets" /\ inv.args.facet = Absent
       /\ inv.args.preset # StrLit("trending-topics") =>
          /\ inv.pc = "returned"
          /\ inv.call = Absent /\ inv.response = Absent
          /\ inv.result.isError
          /\ Content = <<Lit("Missing required parameter: facet (e.g. 'slug', 'genre', 'country'). Alternatively, use preset: 'trending-topics'.")>>
    /\ inv.tool = "afp_list_facets" /\ inv.call # Absent =>
          inv.call.op = "list" /\ inv.call.facet.k = "str" /\ inv.call.facet.n > 0

\* no facet, no preset, a language and a size given: the error, and no call
C11_Witness ==
    /\ ReturnedBy({"afp_list_facets"})
    /\ inv.args.facet = Absent /\ inv.args.preset = Absent
    /\ inv.args.lang = StrLit("en") /\ inv.args.size = NumV(30)
    /\ inv.result.isError /\ inv.call = Absent

ParagraphTexts(doc) ==
    IF doc["news"].k = "arr"
    THEN [i \in 1..Len(doc["news"].items) |->
             <<Piece(doc["news"].items[i].s, doc["news"].items[i].n)>>]
    ELSE <<>>

\* the pieces of a block that are (part of) a paragraph of the document
ParagraphsIn(block, doc) ==
    SelectSeq(block, LAMBDA q : \E i \in 1..Len(ParagraphTexts(doc)) :
                                    q.s = ParagraphTexts(doc)[i][1].s)

\* the block's body is the first k paragraphs joined by a blank line, and the
\* block holds no other paragraph
HasBody(block, doc, k) ==
    LET body == TJoin(SubSeq(ParagraphTexts(doc), 1, k), Lit("\n\n"))
    IN  /\ Len(block) >= Len(body)
        /\ SubSeq(block, Len(block) - Len(body) + 1, Len(block)) = body
        /\ ParagraphsIn(block, doc) = SelectSeq(body, LAMBDA q : q.s # "\n\n")

Min(a, b) == IF a < b THEN a ELSE b

\* the body the claim prescribes for the document block of doc
PrescribedBody(block, doc) ==
    IF IsSearch /\ (inv.args.preset # Absent \/ inv.args.fullText = BoolV(TRUE))
    THEN HasBody(block, doc, Len(ParagraphTexts(doc)))
    ELSE HasBody(block, doc, Min(4, Len(ParagraphTexts(doc))))

\* the block ends with the marker that truncateIfNeeded puts after a cut
CutShort(block) == block # <<>> /\ block[Len(block)] = Piece("\n\n[...truncated]", 16)

\* afp_get_article renders every paragraph of every document, in one block
GetRendersEverything ==
    ReturnedBy({"afp_get_article"}) /\ Resolved =>
        /\ ~inv.result.isError
        /\ Len(Content) = 1
        /\ HasBody(Content[1], inv.response.doc, Len(ParagraphTexts(inv.response.doc)))
        /\ ~CutShort(Content[1])

\* C13 as stated: every markdown document block of afp_search_articles holds
\* exactly the first 4 paragraphs when fullText is false or omitted and no
\* preset is given, and all paragraphs when fullText is true or a preset is
\* given; afp_find_similar always renders the 4-paragraph excerpt;
\* afp_get_article always renders every paragraph; a document without a
\* paragraph array renders an empty body.
C13_BodySelection ==
    /\ Rendered /\ FormatOf = "markdown" =>
          \A j \in 2..Len(Body) : PrescribedBody(Body[j], inv.response.documents[j - 1])
    /\ GetRendersEverything

\* C13 amended: the same, for the document blocks that the size limit left
\* whole, that is every document block but the one ending with the
\* '[...truncated]' marker.
C13_BodySelectionOfWholeBlocks ==
    /\ Rendered /\ FormatOf = "markdown" =>
          \A j \in 2..Len(Body) :
              ~CutShort(Body[j]) => PrescribedBody(Body[j], inv.response.documents[j - 1])
    /\ GetRendersEverything

\* the five-paragraph fixture searched without fullText and without preset,
\* next to a document without paragraphs: four paragraphs, and an empty body
C13_Witness ==
    /\ Rendered /\ IsSearch /\ FormatOf = "markdown"
    /\ inv.args.preset = Absent /\ inv.args.fullText = Absent
    /\ inv.response.documents = <<DocShort, DocWide>>
    /\ Len(Body) = 3
    /\ Contains(Body[2], Piece("short4", 300)) /\ ~Contains(Body[2], Piece("short5", 300))
    /\ CutShort(Body[3]) /\ ParagraphsIn(Body[3], DocWide) = <<>>

---------------------------------------------------------------------------
(* Claims about pickDocFields, under SpecPick *)

\* the position of the first occurrence of a name among the requested names
FirstAt(names, f) == CHOOSE i \in 1..Len(names) :
                        names[i] = f /\ \A j \in 1..(i - 1) : names[j] # f

\* C14: pickDocFields(doc, names) returns a mapping whose keys are exactly
\* the requested names in the requested order, each value being the
\* document's attribute, or null when the attribute is absent or the name is
\* unknown; projecting the result again with the same names returns the same
\* mapping.
C14_Projection ==
    pure.pc \in {"projected", "done"} =>
        LET r == pure.result
            names == pure.names
        IN  /\ {r[i][1] : i \in 1..Len(r)} = Range(names)
            /\ \A i, j \in 1..Len(r) :
                  i < j => FirstAt(names, r[i][1]) < FirstAt(names, r[j][1])
            /\ \A i \in 1..Len(r) :
                  r[i][2] = IF r[i][1] \in DocKeys /\ pure.doc[r[i][1]] # Absent
                            THEN pure.doc[r[i][1]]
                            ELSE Null
            /\ pure.pc = "done" => pure.again = r

---------------------------------------------------------------------------
(* Claims about the CSV and JSON renderings, under Spec *)

\* a CSV response that was not truncated
WholeCsv == Rendered /\ FormatOf = "csv" /\ ~Exceeded

\* the requested field names joined by commas
JoinedNames == TJoin([i \in 1..Len(FieldsOf) |-> Lit(FieldsOf[i].f)], Lit(","))

\* the first line of the body is the text: the body starts with it, and a
\* line feed or the end of the body follows
FirstLineIs(body, line) ==
    /\ Len(body) >= Len(line)
    /\ SubSeq(body, 1, Len(line)) = line
    /\ Len(body) > Len(line) => body[Len(line) + 1] = Piece("\n", 1)

\* the line feeds inside the requested values of the documents
LineFeedsInValues ==
    LET docs == inv.response.documents
        cell(i, j) == CsvString(Get(docs[i], FieldsOf[j].f)).sp.nl * FieldsOf[j].k
        Row[i \in 1..Len(docs), j \in 0..Len(FieldsOf)] ==
            IF j = 0 THEN 0 ELSE Row[i, j - 1] + cell(i, j)
        All[i \in 0..Len(docs)] ==
            IF i = 0 THEN 0 ELSE All[i - 1] + Row[i, Len(FieldsOf)]
    IN  All[Len(docs)]

---------------------------------------------------------------------------
(* Claims about concurrent invocations, under SpecConcurrent *)

\* the payload one invocation alone returns for a tool, its arguments and
\* the outcome of its upstream call
AlonePayload(tool, args, response) ==
    CASE tool = "afp_search_articles" /\ response.ok -> SearchResume(args, response)
      [] tool = "afp_search_articles" -> SearchCatch(response.error)
      [] tool = "afp_find_similar" /\ response.ok -> SimilarResume(args, response)
      [] tool = "afp_find_similar" -> SimilarCatch(args, response.error)
      [] tool = "afp_get_article" /\ response.ok -> GetResume(response.doc)
      [] tool = "afp_get_article" -> GetCatch(args, response.error)
      [] response.ok -> ListResume(args, response)
      [] OTHER -> ListCatch(response.error)

\* every returned payload is the one the invocation would return alone, and
\* two invocations with the same tool, arguments and upstream outcome return
\* the same payload
OwnPayload ==
    /\ \A i \in Slots :
          flight[i].pc = "returned" /\ flight[i].response # Absent =>
              flight[i].result =
                  AlonePayload(flight[i].tool, flight[i].args, flight[i].response)
    /\ \A i, j \in Slots :
          /\ flight[i].pc = "returned" /\ flight[j].pc = "returned"
          /\ flight[i].tool = flight[j].tool /\ flight[i].args = flight[j].args
          /\ flight[i].response = flight[j].response
          => flight[i].result = flight[j].result

---------------------------------------------------------------------------
(* Claims about createServer, under SpecServer *)

\* an option is missing or empty
Unset(v) == v = Absent \/ v = StrLit("")

\* how many times the log holds the operation
Times(op) == Cardinality({i \in 1..Len(server.log) : server.log[i].op = op})

Registrations == {"registerTools", "registerResources", "registerPrompts"}

---------------------------------------------------------------------------
(* Claims about the notification tools, under SpecMail *)

\* the upstream call op was made during the last call of a tool
Called(op) == \E i \in 1..Len(mail.log) : mail.log[i] = op

\* in the last call, every call of op came before every call of later
Before(op, later) ==
    \A i, j \in 1..Len(mail.log) : mail.log[i] = op /\ mail.log[j] = later => i < j

\* a call of the tool is complete
CallComplete(tool) == mail.pc = "idle" /\ mail.done > 0 /\ mail.tool = tool

\* C18: in a sequential run of notification-add-subscription and
\* notification-delete-subscription calls, add-subscription registers the
\* 'mcp-mail-service' service if and only if no service of that name is
\* listed, and before it adds the subscription; delete-subscription deletes
\* the service if and only if no subscription remains in it after the
\* deletion; and after every completed call the mail service exists exactly
\* when at least one subscription exists.
C18_ServiceIffSubscriptions ==
    /\ CallComplete("notification-add-subscription") /\ mail.listed # Absent =>
          /\ Called("registerService") <=> ~mail.listed.v
          /\ Before("registerService", "addSubscription")
    /\ CallComplete("notification-delete-subscription") /\ mail.remaining # Absent =>
          (Called("deleteService") <=> mail.remaining.v = 0)
    /\ mail.pc = "idle" /\ mail.done > 0 => (mail.service <=> mail.subs # {})

\* C30: after any sequence of notification-add-subscription calls, the
\* e-mail address named in a call's confirmation message ('notifications
\* sent to <email>') is the address the 'mcp-mail-service' service is
\* registered with at that moment, also when the service already existed
\* and the call passes a different e-mail.
C30_ConfirmedAddressIsRegistered ==
    (CallComplete("notification-add-subscription") /\ mail.outcome = "resolved") =>
        /\ mail.service
        /\ mail.confirmed = mail.address

---------------------------------------------------------------------------
(* Claims about concurrent notification tools, under SpecMailConcurrent *)

\* the step deletes the mail service
ServiceDeleted == center.service /\ ~center'.service

\* C29: under every interleaving of concurrent notification-add-subscription
\* and notification-delete-subscription invocations the mail service is
\* registered at most once while it exists, and it is never deleted while a
\* subscription that was successfully added to it still exists.
C29_RegisteredOnceAndKept ==
    /\ [](center.pc = "on" => center.registrations <= 1)
    /\ [][ServiceDeleted => center.subs = {}]_vars

---------------------------------------------------------------------------
(* Claims about the JSON envelope, under Spec: the envelope is read back   *)
(* from the text of the response                                           *)

JsonResponse == Rendered /\ FormatOf = "json"

\* where the member "key": of the envelope starts in the text
MemberAt(t, key) ==
    CHOOSE i \in 2..(Len(t) - 1) :
        /\ t[i] = Piece(key, Len(key))
        /\ t[i - 1] = Piece("\"", 1) /\ t[i + 1] = Piece("\": ", 3)

\* the text of the scalar value of the member
MemberValue(t, key) == t[MemberAt(t, key) + 2].s

\* the number of entries of the documents array: the objects that open at
\* the indentation of its elements
EntriesOf(t) ==
    Cardinality({i \in 1..(Len(t) - 1) :
                    t[i] = Piece("(spaces)", 4) /\ t[i + 1].s \in {"{\n", "{}"}})

\* the text of the documents member up to the end of the envelope
DocumentsPart(t) == SubSeq(t, MemberAt(t, "documents") - 1, Len(t))

\* C19: in every JSON response of afp_search_articles and afp_find_similar
\* `shown` equals the number of entries of `documents`, `documents` is a
\* prefix, in upstream order, of the projected upstream documents,
\* `truncated` is true exactly when shown is smaller than the number of
\* upstream documents, and exactly when the response carries the
\* truncation-notice block.
C19_JsonEnvelope ==
    JsonResponse =>
        LET t == Content[1]
            docs == inv.response.documents
            projected == [i \in 1..Len(docs) |-> pickDocFields(docs[i], FieldsOf)]
            entries == EntriesOf(t)
        IN  /\ MemberValue(t, "shown") = ToString(entries)
            /\ entries <= Len(docs)
            /\ DocumentsPart(t) =
                  Lit("\"") \o Lit("documents") \o Lit("\": ")
                    \o JsonBlock("[", [i \in 1..entries |-> JsonObject(projected[i], 4)],
                                 "]", 2)
                    \o Lit("\n") \o Lit("}")
            /\ MemberValue(t, "truncated") \in {"true", "false"}
            /\ MemberValue(t, "truncated") = "true" <=> entries < Len(docs)
            /\ MemberValue(t, "truncated") = "true" <=> Notices # {}

\* two upstream documents of which one is shown: truncated, with the notice
C19_Witness ==
    /\ JsonResponse
    /\ Len(inv.response.documents) = 2
    /\ MemberValue(Content[1], "shown") = "1"
    /\ MemberValue(Content[1], "truncated") = "true"
    /\ EndsWithOneNotice

---------------------------------------------------------------------------
(* Claims about escapeCsvValue, under SpecEscape: the returned text is     *)
(* read character by character                                             *)

\* the characters of a text whose pieces are given by their characters
RECURSIVE Flat(_)
Flat(t) == IF t = <<>> THEN "" ELSE Head(t).s \o Flat(Tail(t))

CharAt(s, i) == SubSeq(s, i, i)

\* the string contains a comma, a double quote or a line break
HasSpecialChar(s) == \E i \in 1..Len(s) : CharAt(s, i) \in {",", "\"", "\n", "\r"}

\* the string starts and ends with a double quote
IsWrapped(s) == Len(s) >= 2 /\ CharAt(s, 1) = "\"" /\ CharAt(s, Len(s)) = "\""

\* s from its i-th character on, two double quotes in a row read as one
RECURSIVE Halved(_, _)
Halved(s, i) ==
    IF i > Len(s) THEN ""
    ELSE IF i < Len(s) /\ CharAt(s, i) = "\"" /\ CharAt(s, i + 1) = "\""
         THEN "\"" \o Halved(s, i + 2)
         ELSE CharAt(s, i) \o Halved(s, i + 1)

\* undoing the quoting: the outer quotes stripped, doubled quotes halved
Unquoted(s) == IF IsWrapped(s) THEN Halved(SubSeq(s, 2, Len(s) - 1), 1) ELSE s

\* every double quote of s stands in a pair
RECURSIVE AllDoubled(_, _)
AllDoubled(s, i) ==
    IF i > Len(s) THEN TRUE
    ELSE IF CharAt(s, i) # "\"" THEN AllDoubled(s, i + 1)
    ELSE i < Len(s) /\ CharAt(s, i + 1) = "\"" /\ AllDoubled(s, i + 2)

\* the characters of an element of a joined sequence
ElementChars(x) ==
    CASE x.k = "str" -> x.s
      [] x.k = "num" -> ToString(x.v)
      [] OTHER -> ""

\* the string the claim starts from: '' for an absent value, the elements
\* joined with '|' for a sequence
OriginalString(v) ==
    CASE v.k \in {"absent", "null"} -> ""
      [] v.k = "str" -> v.s
      [] v.k = "num" -> ToString(v.v)
      [] OTHER ->
           IF Len(v.items) = 0 THEN ""
           ELSE IF Len(v.items) = 1 THEN ElementChars(v.items[1])
           ELSE ElementChars(v.items[1]) \o "|" \o ElementChars(v.items[2])

\* C20: escapeCsvValue maps an absent (null or undefined) value to the empty
\* string and a sequence to its elements joined with '|'; the resulting
\* string is wrapped in double quotes with every internal double quote
\* doubled if and only if it contains a comma, a double quote or a line
\* break, and is returned unchanged otherwise; stripping the outer quotes
\* and halving the doubled quotes returns the original string.  The csv row
\* of afp_list_facets escapes a facet name the same way.
C20_EscapeCsvValue ==
    pure.pc = "escaped" =>
        LET str == OriginalString(pure.value)
            out == Flat(pure.result)
        IN  /\ TLen(pure.result) = Len(out)
            /\ IsWrapped(out) <=> HasSpecialChar(str)
            /\ HasSpecialChar(str) =>
                  /\ AllDoubled(SubSeq(out, 2, Len(out) - 1), 1)
                  /\ Len(out) = Len(str) + Occurrences(str, "\"", Len(str)) + 2
            /\ ~HasSpecialChar(str) => out = str
            /\ Unquoted(out) = str

\* the sequence ['a', '"'] is joined to a|" and returned as "a|"""
C20_Witness ==
    /\ pure.pc = "escaped" /\ pure.fn = "escapeCsvValue"
    /\ pure.value = Arr(<<Chars("a"), Chars("\"")>>)
    /\ Flat(pure.result) = "\"a|\"\"\""

---------------------------------------------------------------------------
(* Claims about the request of afp_search_articles, under Spec *)

\* afp_search_articles has sent its request upstream
SearchSent == IsSearch /\ inv.pc \in {"awaiting", "returned"}

CallerFacets == IF inv.args.facets = Absent THEN NoKeys ELSE inv.args.facets.entries

PresetBundle == IF inv.args.preset = Absent THEN NoKeys ELSE SEARCH_PRESETS[inv.args.preset.s]

\* the keys a request takes from the defaults, the facets and the preset
FilterKeys == RequestKeys \ {"query", "size", "sortOrder", "startAt"}

DefaultFilter(key) ==
    CASE key = "product" -> StrList(<<"news", "factcheck">>)
      [] key = "genreid" -> GENRE_EXCLUSIONS
      [] OTHER -> Absent

\* C21: the request of afp_search_articles is built with the precedence
\* defaults < caller facets < preset: a preset value replaces everything, a
\* caller facets entry replaces the default of its key, and otherwise
\* genreid is the default genre exclusion and product is ['news',
\* 'factcheck']; the default genre exclusion is in every request in which
\* neither the facets nor the preset define genreid.
C21_RequestPrecedence ==
    SearchSent =>
        LET request == inv.call.request
        IN  /\ \A key \in FilterKeys :
                  request[key] =
                      IF PresetBundle[key] # Absent THEN PresetBundle[key]
                      ELSE IF CallerFacets[key] # Absent THEN CallerFacets[key]
                      ELSE DefaultFilter(key)
            /\ (PresetBundle["genreid"] = Absent /\ CallerFacets["genreid"] = Absent) =>
                  request["genreid"] = GENRE_EXCLUSIONS

\* no preset, the caller's genreid in place of the default exclusion and the
\* default product kept
C21_Witness ==
    /\ SearchSent /\ inv.args.preset = Absent
    /\ CallerFacets["genreid"] = StrList(<<"afpattribute:Sport">>)
    /\ inv.call.request["genreid"] = StrList(<<"afpattribute:Sport">>)
    /\ inv.call.request["product"] = StrList(<<"news", "factcheck">>)

---------------------------------------------------------------------------
(* Claims about the module-level tables, under SpecConfig *)

\* C22: SEARCH_PRESETS, GENRE_EXCLUSIONS, ALL_DOC_FIELDS and
\* DEFAULT_OUTPUT_FIELDS are left unchanged by every tool invocation, in
\* every format and with every preset: under every interleaving each table
\* equals its initial value, and a preset name resolves to the same bundle
\* in every invocation.
C22_TablesUnchanged ==
    /\ config.tables = StaticTables
    /\ \A i \in Slots :
          config.calls[i].pc # "idle" =>
              /\ (config.calls[i].tool = "afp_search_articles"
                    /\ config.calls[i].args.preset # Absent) =>
                    config.calls[i].bundle = SEARCH_PRESETS[config.calls[i].args.preset.s]
              /\ (config.calls[i].outputFields # <<>> /\ config.calls[i].args.fields = Absent) =>
                    config.calls[i].outputFields = DEFAULT_OUTPUT_FIELDS

\* two invocations with the same preset, one returned while the other waits
C22_Witness ==
    \E i, j \in Slots :
        /\ i # j
        /\ config.calls[i].pc = "returned" /\ config.calls[j].pc = "awaiting"
        /\ config.calls[i].tool = "afp_search_articles"
        /\ config.calls[j].tool = "afp_search_articles"
        /\ config.calls[i].args.preset = StrLit("a-la-une")
        /\ config.calls[j].args.preset = StrLit("a-la-une")
        /\ config.calls[i].args.format # config.calls[j].args.format
        /\ config.calls[i].bundle = config.calls[j].bundle

---------------------------------------------------------------------------
(* Claims about the termination of truncateToLimit, under SpecTruncateRuns *)

\* the least k with 2^k >= s
CeilLog2(s) == CHOOSE k \in 0..s : 2 ^ k >= s /\ \A j \in 0..(k - 1) : 2 ^ j < s

\* C23: the binary search of truncateToLimit terminates for every item
\* count and every serializer: 0 <= lo <= hi <= n holds throughout, every
\* iteration strictly shrinks the interval [lo, hi], the loop runs at most
\* ceil(log2(n+1)) iterations, and serialize is called at most that many
\* times plus two.
C23_Termination ==
    /\ [](trunc.pc = "loop" =>
            /\ 0 <= trunc.lo /\ trunc.lo <= trunc.hi /\ trunc.hi <= trunc.n
            /\ trunc.calls - 1 <= CeilLog2(trunc.n + 1))
    /\ [](trunc.calls <= CeilLog2(trunc.n + 1) + 2)
    /\ [][(trunc.pc = "loop" /\ trunc'.pc = "loop") =>
              /\ trunc'.hi - trunc'.lo < trunc.hi - trunc.lo
              /\ trunc.lo <= trunc'.lo /\ trunc'.hi <= trunc.hi]_vars
    /\ <>(trunc.pc = "done")

\* three items, the loop taken twice and serialize called four times
C23_Witness ==
    /\ trunc.pc = "done" /\ trunc.n = 3 /\ trunc.result.truncated
    /\ trunc.calls = CeilLog2(trunc.n + 1) + 2

---------------------------------------------------------------------------
(* Claims about the pagination of afp_search_articles, under Spec *)

MarkdownSearch == Rendered /\ IsSearch /\ FormatOf = "markdown"

\* the N of 'Showing N of T results', read from the line
ShownReported == PaginationLine[2].s

\* the article blocks of the response that were not cut: every block after
\* the pagination line that is neither the notice nor ends with the marker
WholeArticleBlocks ==
    Cardinality({i \in 2..Len(Content) : ~IsNotice(Content[i]) /\ ~CutShort(Content[i])})

\* C25: in every markdown response of afp_search_articles the number N of
\* the pagination line 'Showing N of T results' equals the number of whole
\* article blocks of the response, also when the response was truncated, so
\* that 'Use offset=<offset+N>' never skips an article that was not
\* delivered in full.
C25_ShownCountsWholeBlocks ==
    MarkdownSearch =>
        /\ PaginationLine[1] = Piece("*Showing ", 9)
        /\ ShownReported = ToString(WholeArticleBlocks)

\* the startAt of the request sent upstream, an absent one counting as 0
StartAtSent ==
    IF inv.call.request["startAt"] = Absent THEN 0 ELSE inv.call.request["startAt"].v

\* the offset the response reports: the pagination line of a markdown
\* response, the offset member of a JSON response
OffsetReported ==
    IF FormatOf = "json" THEN MemberValue(Content[1], "offset") ELSE PaginationLine[6].s

\* C26: for every input the schema of afp_search_articles accepts, the
\* offset reported to the caller (markdown pagination line, JSON offset
\* field) equals the startAt sent upstream, an absent offset counting as 0,
\* and the query, size and sortOrder sent upstream are the caller's
\* top-level values (size as the preset sets it when there is one): no
\* entry of facets replaces them.
C26_OffsetIsStartAt ==
    /\ SearchSent =>
          LET request == inv.call.request
          IN  /\ inv.args.facets # Absent => FacetsAccepted(inv.args.facets.entries)
              /\ request["query"] = inv.args.query
              /\ request["sortOrder"] = Default(inv.args.sortOrder, StrLit("desc"))
              /\ request["size"] =
                    IF PresetBundle["size"] # Absent THEN PresetBundle["size"]
                    ELSE Default(inv.args.size, NumV(DEFAULT_SEARCH_SIZE))
    /\ (Rendered /\ IsSearch /\ FormatOf \in {"markdown", "json"}) =>
          OffsetReported = ToString(StartAtSent)

---------------------------------------------------------------------------
(* Claims about the /mcp endpoint, under SpecHttp *)

\* the header decodes as Basic user:password
DecodesAsBasic(header) ==
    /\ header # Absent
    /\ header.scheme \in {"Basic", "basic", "BASIC"}
    /\ \E i \in 1..Len(header.decoded) : SubSeq(header.decoded, i, i) = ":"

\* the request carries a session id
HasSessionId(sessionId) == sessionId # Absent /\ sessionId.s # ""

\* the step handles a request
RequestHandled == http'.last.n # http.last.n

NothingCreated == http'.sessions = http.sessions /\ http'.transports = http.transports

\* every key of the session table is the session id of its transport
KeysAreSessionIds ==
    \A sid \in DOMAIN http.sessions :
        http.transports[http.sessions[sid]].sessionId = StrLit(sid)

\* the four rules, in their order, for the request of the step
RoutedByTheRules ==
    RequestHandled =>
        LET request == http'.last
            sid == request.sessionId
        IN  IF ~DecodesAsBasic(request.authHeader)
            THEN /\ request.outcome \in {"401 Authorization header required",
                                         "401 Invalid Basic auth header"}
                 /\ NothingCreated
            ELSE IF HasSessionId(sid) /\ sid.s \in DOMAIN http.sessions
            THEN /\ request.outcome = "delegate"
                 /\ request.via = http.sessions[sid.s]
                 /\ NothingCreated
            ELSE IF HasSessionId(sid)
            THEN request.outcome = "404 Session not found" /\ NothingCreated
            ELSE /\ request.outcome = "create"
                 /\ http'.sessions = http.sessions
                 /\ http.transports[request.via].pc = "unused"
                 /\ http'.transports[request.via].pc = "creating"
                 /\ \A t \in Transports \ {request.via} :
                        http'.transports[t] = http.transports[t]

\* a pair enters the table when the creating request is done, under the
\* session id its transport assigned
StoredUnderAssignedId ==
    \A sid \in DOMAIN http'.sessions \ DOMAIN http.sessions :
        LET t == http'.sessions[sid]
        IN  /\ http.transports[t].pc = "handling" /\ http'.transports[t].pc = "done"
            /\ http.transports[t].sessionId = StrLit(sid)

\* every session-creating request whose createServer call has settled has
\* a server
ServerForEveryCreate ==
    \A t \in Transports :
        http.transports[t].pc \notin {"unused", "creating"} =>
            http.transports[t].server = "authenticated"

\* C24, with the creation of a session put as the code runs it: a request
\* is routed by exactly one of four rules, in this order: no Authorization
\* header or one that does not decode as Basic user:password gives 401 and
\* creates nothing; a session id found in the table delegates to that
\* session's transport and creates nothing; a session id not in the table
\* gives 404 and creates nothing; no session id constructs a transport and
\* calls createServer, and the pair is stored under the transport's session
\* id only if createServer and connect resolved and the transport assigned
\* one.  Every key of the table is the session id of its transport.
C24_Routing ==
    /\ []KeysAreSessionIds
    /\ [][RoutedByTheRules /\ StoredUnderAssignedId]_vars

\* C24 as stated: the fourth rule creates a new server and transport
C24_RoutingCreatesServer ==
    /\ []KeysAreSessionIds
    /\ []ServerForEveryCreate
    /\ [][RoutedByTheRules /\ StoredUnderAssignedId]_vars

\* a request delegated to the stored session of the first transport, the
\* second transport done without a session id and not stored
C24_Witness ==
    /\ http.pc = "listening"
    /\ http.last.outcome = "delegate" /\ http.last.via = 1
    /\ DOMAIN http.sessions = {SessionIdOf(1)}
    /\ http.transports[2].pc = "done" /\ http.transports[2].sessionId = Absent
    /\ ~http.transports[2].closed

\* C27: under every interleaving of requests and transport close events the
\* session table holds only sessions whose transport has not been closed:
\* once the close callback of a transport has run its session id is absent
\* from the table and stays absent, also when the transport closes while
\* the session-creating request is still being handled.
C27_NoClosedSessionStored ==
    http.pc = "listening" =>
        \A sid \in DOMAIN http.sessions : ~http.transports[http.sessions[sid]].closed

\* the credentials the request of the last step presented
PresentedCredentials == decodeBasicAuth(http.last.authHeader)

\* C28: each session authenticates independently: the upstream client of a
\* session is authenticated with the credentials of the request that
\* created it, and a request carrying the id of an existing session is
\* served by that session only if it presents the same credentials.
C28_SessionServesItsOwner ==
    http.pc = "listening" =>
        /\ \A t \in Transports :
              http.transports[t].server = "authenticated" =>
                  http.transports[t].credentials \in
                      {[k |-> "credentials", username |-> "alice", password |-> "secret"],
                       [k |-> "credentials", username |-> "bob", password |-> "hunter2"]}
        /\ http.last.outcome = "create" =>
              http.transports[http.last.via].credentials = PresentedCredentials
        /\ http.last.outcome = "delegate" =>
              PresentedCredentials = http.transports[http.last.via].credentials

====
